---- MODULE Spec2Model ----
(***************************************************************************)
(* Four-tier execution machinery of the operations agent: the workflow     *)
(* engine (app/layers/workflow_engine.py), the sub-agent task dispatcher   *)
(* (app/layers/sub_agents.py) and the master agent (app/layers/            *)
(* master_agent.py).                                                       *)
(*                                                                         *)
(* Python objects live on a heap: `executions`, `tasks` and `sessions` are *)
(* sequences of objects and the position of an object is its id            *)
(* (str(uuid4())[:8] in the source).  A task refers to its workflow        *)
(* executions, and a session to its tasks, by id, which is how the source  *)
(* shares one object between a registry and its owner.  The flag `stored`  *)
(* of an object says whether the registry dict holds it.                   *)
(* Timestamps and durations are not modelled.                              *)
(***************************************************************************)
EXTENDS Integers, Sequences, FiniteSets, TLC

VARIABLES
    executions,   \* heap of WorkflowExecution objects (WorkflowEngine.executions holds the stored ones)
    tasks,        \* heap of SubAgentTask objects (SubAgentManager.tasks holds the stored ones)
    sessions,     \* heap of MasterAgentSession objects (MasterAgent.sessions)
    ret,          \* the last call and what it returned
    loop          \* the run loop of one execute call, one iteration at a time (SpecLoop)

vars == <<executions, tasks, sessions, ret, loop>>

-----------------------------------------------------------------------------
(* Bounds *)

MaxExecs == 1        \* WorkflowExecution objects created in a behaviour of SpecEngine
MaxInject == 1       \* node visits of one call of the engine at which an action may fail
MaxInjectTask == 2   \* the same for one call of the agent layers
MaxSteps == 8        \* node visits of one call; a call that needs more has not returned
MaxTasks == 1        \* SubAgentTask objects created in a behaviour of SpecTask
MaxTaskExecs == 3    \* WorkflowExecution objects created through tasks in a behaviour
MaxSessions == 1     \* MasterAgentSession objects created in a behaviour of Spec
MaxRecords == 5      \* node records of an execution that is approved again and again
MaxAppExecs == 2     \* WorkflowExecution objects created in a behaviour of SpecApp
MaxPairSessions == 2 \* MasterAgentSession objects created in a behaviour of SpecPair
MaxPairExecs == 3    \* WorkflowExecution objects created in a behaviour of SpecPair

-----------------------------------------------------------------------------
(* Values *)

None == "None"

PENDING == "pending"
RUNNING == "running"
SUCCESS == "success"
ERROR == "error"
AWAITING_APPROVAL == "awaiting_approval"
APPROVED == "approved"
REJECTED == "rejected"

SKILL == "skill"
APPROVAL == "approval"
PARALLEL == "parallel"
CONDITION == "condition"
WAIT == "wait"
SUB_WORKFLOW == "sub_workflow"

EmptyDict == [k \in {} |-> None]

\* a local variable: v is computed once and named in Body
Let(v, Body(_)) == CHOOSE y \in {Body(x) : x \in {v}} : TRUE

\* dict.update: last write wins per key
DictUpdate(d, other) ==
    [k \in (DOMAIN d) \cup (DOMAIN other) |-> IF k \in DOMAIN other THEN other[k] ELSE d[k]]

-----------------------------------------------------------------------------
(* Atomic skills *)

\* the ids of SkillExecutor.skills that the modelled workflows use
SkillIds ==
    {"create-sku", "config-pos-item", "sync-app-product", "update-menu-board",
     "create-training-task", "calculate-price", "update-pos-price", "sync-app-price",
     "create-campaign", "config-pos-discount", "setup-member-points",
     "send-notification", "fetch-sales-data", "generate-report"}

\* SkillExecutor.SKILL_TO_MCP_TOOLS: the adapter calls of every action
SKILL_TO_MCP_TOOLS ==
    [skill_id \in SkillIds |->
        CASE skill_id = "create-sku" -> <<"inventory.sku.create">>
          [] skill_id = "config-pos-item" -> <<"pos.product.create">>
          [] skill_id = "sync-app-product" -> <<"app.product.sync">>
          [] skill_id = "update-menu-board" -> <<"menuboard.content.update">>
          [] skill_id = "calculate-price" -> <<"pricing.calculate", "pricing.competitor.analyze">>
          [] skill_id = "update-pos-price" -> <<"pos.price.update">>
          [] skill_id = "sync-app-price" -> <<"app.price.sync">>
          [] skill_id = "create-campaign" -> <<"marketing.campaign.create">>
          [] skill_id = "config-pos-discount" -> <<"pos.discount.config">>
          [] skill_id = "setup-member-points" -> <<"crm.points.config">>
          [] skill_id = "create-training-task" -> <<"training.task.create">>
          [] skill_id = "send-notification" -> <<"app.notification.send">>
          [] skill_id = "fetch-sales-data" -> <<"analytics.sales.query">>
          [] skill_id = "generate-report" -> <<"analytics.report.generate">>]

\* what the environment does to one action: every adapter call succeeds ("ok"), the
\* first adapter call returns a failure result ("fail"), or the adapter calls succeed
\* and the executor's try block raises afterwards ("raise")
Outcomes == {"ok", "fail", "raise"}

\* MCPClient.call_tool for the calls of one action: the status of every tool call
ToolCalls(skill_id, outcome) ==
    [i \in 1..Len(SKILL_TO_MCP_TOOLS[skill_id]) |->
        IF outcome = "fail" /\ i = 1 THEN ERROR ELSE SUCCESS]

\* SkillExecutor._generate_skill_result: the merged data of the tool calls that have a
\* result, tagged with the skill id; the default result if no tool call has one
SkillResult(skill_id, tool_calls) ==
    IF \A i \in 1..Len(tool_calls) : tool_calls[i] = SUCCESS
    THEN (skill_id :> "done") @@ ("_skill_id" :> skill_id)
    ELSE IF \E i \in 1..Len(tool_calls) : tool_calls[i] = SUCCESS
         THEN (skill_id :> "partial") @@ ("_skill_id" :> skill_id)
         ELSE (skill_id :> "default")

\* an executor that hands an id it does not know to the adapters all the same
SkillExecute_Delegates(skill_id, outcome) ==
    IF skill_id \notin SkillIds
    THEN [status |-> ERROR, output_result |-> <<>>, error |-> "not found",
          tool_calls |-> <<ERROR>>]
    ELSE IF outcome = "raise"
         THEN [status |-> ERROR, output_result |-> <<>>, error |-> "raised",
               tool_calls |-> ToolCalls(skill_id, outcome)]
         ELSE [status |-> SUCCESS,
               output_result |-> <<SkillResult(skill_id, ToolCalls(skill_id, outcome))>>,
               error |-> None, tool_calls |-> ToolCalls(skill_id, outcome)]

\* SkillExecutor.execute, as far as the engine reads it: status, output_result, error,
\* and the tool calls it recorded
SkillExecute(skill_id, outcome) ==
    IF skill_id \notin SkillIds
    THEN [status |-> ERROR, output_result |-> <<>>, error |-> "not found", tool_calls |-> <<>>]
    ELSE IF outcome = "raise"
         THEN [status |-> ERROR, output_result |-> <<>>, error |-> "raised",
               tool_calls |-> ToolCalls(skill_id, outcome)]
         ELSE [status |-> SUCCESS,
               output_result |-> <<SkillResult(skill_id, ToolCalls(skill_id, outcome))>>,
               error |-> None, tool_calls |-> ToolCalls(skill_id, outcome)]

-----------------------------------------------------------------------------
(* Workflow definitions *)

Node(id, type, skill, next, onerr) ==
    [node_id |-> id, node_type |-> type, skill_id |-> skill, next_node |-> next, on_error |-> onerr]

SkillNode(id, skill, next) == Node(id, SKILL, skill, next, None)

ApprovalNode(id, next) == Node(id, APPROVAL, None, next, None)

\* WorkflowEngine._init_workflows: the predefined workflows, node for node
product_launch_workflow ==
    [start_node |-> "node-1",
     nodes |-> << SkillNode("node-1", "create-sku", "node-2"),
                  SkillNode("node-2", "config-pos-item", "node-3"),
                  SkillNode("node-3", "sync-app-product", "node-4"),
                  SkillNode("node-4", "update-menu-board", "node-5"),
                  SkillNode("node-5", "create-training-task", "node-6"),
                  ApprovalNode("node-6", "node-7"),
                  SkillNode("node-7", "send-notification", None) >>]

campaign_workflow ==
    [start_node |-> "node-1",
     nodes |-> << SkillNode("node-1", "create-campaign", "node-2"),
                  SkillNode("node-2", "config-pos-discount", "node-3"),
                  SkillNode("node-3", "sync-app-product", "node-4"),
                  SkillNode("node-4", "setup-member-points", "node-5"),
                  SkillNode("node-5", "send-notification", None) >>]

report_workflow ==
    [start_node |-> "node-1",
     nodes |-> << SkillNode("node-1", "fetch-sales-data", "node-2"),
                  SkillNode("node-2", "generate-report", "node-3"),
                  SkillNode("node-3", "send-notification", None) >>]

price_adjust_workflow ==
    [start_node |-> "node-1",
     nodes |-> << SkillNode("node-1", "calculate-price", "node-2"),
                  ApprovalNode("node-2", "node-3"),
                  SkillNode("node-3", "update-pos-price", "node-4"),
                  SkillNode("node-4", "sync-app-price", "node-5"),
                  SkillNode("node-5", "update-menu-board", "node-6"),
                  SkillNode("node-6", "send-notification", None) >>]

\* Further Workflow values the registry can hold: the shapes the data model allows
\* (on_error edges, several gates, back edges, the pass-through node types).
linear_gate_workflow ==
    [start_node |-> "A",
     nodes |-> << SkillNode("A", "calculate-price", "G"),
                  ApprovalNode("G", "B"),
                  SkillNode("B", "send-notification", None) >>]

on_error_workflow ==
    [start_node |-> "A",
     nodes |-> << Node("A", SKILL, "fetch-sales-data", "B", "C"),
                  SkillNode("B", "generate-report", None),
                  SkillNode("C", "send-notification", None) >>]

gate_on_error_workflow ==
    [start_node |-> "G",
     nodes |-> << ApprovalNode("G", "B"),
                  Node("B", SKILL, "update-pos-price", "D", "C"),
                  SkillNode("C", "send-notification", None),
                  SkillNode("D", "sync-app-price", None) >>]

two_gates_workflow ==
    [start_node |-> "G1",
     nodes |-> << ApprovalNode("G1", "B"),
                  SkillNode("B", "update-pos-price", "G2"),
                  ApprovalNode("G2", "C"),
                  SkillNode("C", "send-notification", None) >>]

cycle_workflow ==
    [start_node |-> "A",
     nodes |-> << SkillNode("A", "fetch-sales-data", "B"),
                  Node("B", SKILL, "generate-report", "A", "A") >>]

\* a CONDITION node: condition_expr names a key of the context, true_branch and
\* false_branch the nodes to go to
ConditionNode(id, expr, true_branch, false_branch, next) ==
    Node(id, CONDITION, None, next, None)
        @@ [condition_expr |-> expr, true_branch |-> true_branch,
            false_branch |-> false_branch]

pass_through_workflow ==
    [start_node |-> "P",
     nodes |-> << Node("P", PARALLEL, None, "C", None),
                  ConditionNode("C", "region", "W", "X", "W"),
                  Node("W", WAIT, None, None, None),
                  Node("X", WAIT, None, None, None) >>]

\* a start_node that names no node of the workflow
dangling_start_workflow ==
    [start_node |-> "missing",
     nodes |-> << SkillNode("A", "send-notification", None) >>]

\* a next_node that names no node of the workflow
dangling_next_workflow ==
    [start_node |-> "G",
     nodes |-> << ApprovalNode("G", "missing") >>]

\* a gate that is passed again after a revision: review, revise, review
review_loop_workflow ==
    [start_node |-> "G",
     nodes |-> << ApprovalNode("G", "A"),
                  SkillNode("A", "calculate-price", "G") >>]

\* a node whose skill_id names no action of the catalog
unknown_skill_workflow ==
    [start_node |-> "A",
     nodes |-> << SkillNode("A", "no-such-skill", "B"),
                  SkillNode("B", "send-notification", None) >>]

\* a node of type SUB_WORKFLOW between two actions
sub_workflow_workflow ==
    [start_node |-> "A",
     nodes |-> << SkillNode("A", "fetch-sales-data", "S"),
                  Node("S", SUB_WORKFLOW, None, "B", None),
                  SkillNode("B", "generate-report", None) >>]

\* WorkflowEngine.workflows
workflows ==
    [w \in {"product-launch-workflow", "campaign-setup-workflow",
            "report-gen-workflow", "price-adjust-workflow", "linear-gate-workflow",
            "on-error-workflow", "gate-on-error-workflow", "two-gates-workflow",
            "cycle-workflow", "pass-through-workflow", "dangling-start-workflow",
            "dangling-next-workflow", "review-loop-workflow",
            "unknown-skill-workflow", "sub-workflow-workflow"} |->
        CASE w = "product-launch-workflow" -> product_launch_workflow
          [] w = "campaign-setup-workflow" -> campaign_workflow
          [] w = "report-gen-workflow" -> report_workflow
          [] w = "price-adjust-workflow" -> price_adjust_workflow
          [] w = "linear-gate-workflow" -> linear_gate_workflow
          [] w = "on-error-workflow" -> on_error_workflow
          [] w = "gate-on-error-workflow" -> gate_on_error_workflow
          [] w = "two-gates-workflow" -> two_gates_workflow
          [] w = "cycle-workflow" -> cycle_workflow
          [] w = "pass-through-workflow" -> pass_through_workflow
          [] w = "dangling-start-workflow" -> dangling_start_workflow
          [] w = "dangling-next-workflow" -> dangling_next_workflow
          [] w = "review-loop-workflow" -> review_loop_workflow
          [] w = "unknown-skill-workflow" -> unknown_skill_workflow
          [] w = "sub-workflow-workflow" -> sub_workflow_workflow]

WorkflowIds == DOMAIN workflows

\* workflow ids a caller passes to execute: registered ones and one that is not registered
CallWorkflowIds ==
    {"report-gen-workflow", "price-adjust-workflow", "linear-gate-workflow",
     "on-error-workflow", "gate-on-error-workflow", "two-gates-workflow",
     "cycle-workflow", "pass-through-workflow", "dangling-start-workflow",
     "dangling-next-workflow", "unknown-skill-workflow", "sub-workflow-workflow",
     "no-such-workflow"}

\* WorkflowEngine.get_workflow
HasWorkflow(workflow_id) == workflow_id \in WorkflowIds

\* WorkflowEngine._get_node: the first node with that id, or nothing
GetNode(workflow, node_id) ==
    LET idx == {i \in 1..Len(workflow.nodes) : workflow.nodes[i].node_id = node_id}
    IN IF idx = {} THEN <<>>
       ELSE <<workflow.nodes[CHOOSE i \in idx : \A j \in idx : i <= j]>>

\* the params a caller passes to execute
CallParams == {EmptyDict, ("region" :> "east")}

\* the approved_by a caller passes
Approvers == {"director"}

-----------------------------------------------------------------------------
(* Environment of one call *)

\* the outcome of every action the call runs, by the number of the node visit within the call
Oracles == [1..MaxInject -> Outcomes]

\* the outcomes drawn for a call of the agent layers: an action runs or raises
TaskOutcomes == {"ok", "raise"}

\* the same for a call of execute_task, approve_task, process or approve_session: at
\* most one action of the call raises
TaskOracles ==
    {o \in [1..MaxInjectTask -> TaskOutcomes] :
        Cardinality({v \in 1..MaxInjectTask : o[v] # "ok"}) <= 1}

OutcomeAt(oracle, visit) == IF visit \in DOMAIN oracle THEN oracle[visit] ELSE "ok"

-----------------------------------------------------------------------------
(* WorkflowEngine *)

\* WorkflowEngine._execute_node
ExecuteNode(node, context, outcome) ==
    LET base == [node_id |-> node.node_id, node_type |-> node.node_type,
                 input_data |-> context, output_data |-> EmptyDict, error |-> None,
                 tool_calls |-> <<>>, skill_execution |-> <<>>]
    IN CASE node.node_type = SKILL ->
              LET skill_execution == SkillExecute(node.skill_id, outcome)
              IN [base EXCEPT !.output_data = IF skill_execution.output_result = <<>>
                                              THEN EmptyDict
                                              ELSE skill_execution.output_result[1],
                              !.tool_calls = skill_execution.tool_calls,
                              !.skill_execution = <<skill_execution>>]
                  @@ [status |-> skill_execution.status]
         [] node.node_type = APPROVAL ->
              [base EXCEPT !.output_data = ("approval_required" :> "true")]
                  @@ [status |-> AWAITING_APPROVAL]
         [] node.node_type \in {PARALLEL, CONDITION, WAIT} -> base @@ [status |-> SUCCESS]
         [] OTHER -> base @@ [status |-> RUNNING]

\* the object execute builds before its loop
NewExecution(workflow_id, params) ==
    [workflow_id |-> workflow_id, status |-> RUNNING, input_params |-> params,
     context |-> params, output_result |-> <<>>, current_node |-> None,
     node_executions |-> <<>>, pending_approval |-> None, approved_by |-> None,
     error |-> None, stored |-> FALSE]

\* the object execute returns for an unregistered workflow id; it is not stored
UnknownWorkflowExecution(workflow_id) ==
    [NewExecution(workflow_id, EmptyDict) EXCEPT !.status = ERROR, !.error = "not found"]

\* the end of execute's loop: "execution.status = SUCCESS; output_result = context"
Finish(ex) == [ex EXCEPT !.status = SUCCESS, !.output_result = <<ex.context>>]

\* str(e) of the exception execute raises for a failed node without on_error
RaisedMessage(node_execution) ==
    IF node_execution.error # None THEN node_execution.error ELSE "Node execution failed"

\* ExecuteIteration without the pause at an approval node
ExecuteIteration_NoPause(workflow, ex, cur, outcome) ==
    IF cur = None \/ GetNode(workflow, cur) = <<>>
    THEN [ex |-> Finish(ex), go |-> "done", cur |-> None]
    ELSE LET node == GetNode(workflow, cur)[1]
             node_execution == ExecuteNode(node, ex.context, outcome)
             ex1 == [ex EXCEPT !.current_node = cur,
                               !.node_executions = Append(@, node_execution)]
         IN IF node_execution.status = ERROR
            THEN IF node.on_error # None
                 THEN [ex |-> ex1, go |-> "next", cur |-> node.on_error]
                 ELSE [ex |-> [ex1 EXCEPT !.status = ERROR, !.error = RaisedMessage(node_execution)],
                       go |-> "done", cur |-> None]
            ELSE [ex |-> [ex1 EXCEPT !.context = DictUpdate(@, node_execution.output_data)],
                  go |-> "next", cur |-> node.next_node]

\* One iteration of the while loop of execute at node id cur.
\* Gives the execution after it and where the loop goes: "next" (with the next
\* node id), "return" (paused at a gate) or "done" (loop left, normally or by raise).
ExecuteIteration(workflow, ex, cur, outcome) ==
    IF cur = None \/ GetNode(workflow, cur) = <<>>
    THEN [ex |-> Finish(ex), go |-> "done", cur |-> None]
    ELSE LET node == GetNode(workflow, cur)[1]
             node_execution == ExecuteNode(node, ex.context, outcome)
             ex1 == [ex EXCEPT !.current_node = cur,
                               !.node_executions = Append(@, node_execution)]
         IN IF node.node_type = APPROVAL /\ node_execution.status = AWAITING_APPROVAL
            THEN [ex |-> [ex1 EXCEPT !.status = AWAITING_APPROVAL, !.pending_approval = cur],
                  go |-> "return", cur |-> None]
            ELSE IF node_execution.status = ERROR
                 THEN IF node.on_error # None
                      THEN [ex |-> ex1, go |-> "next", cur |-> node.on_error]
                      ELSE [ex |-> [ex1 EXCEPT !.status = ERROR, !.error = RaisedMessage(node_execution)],
                            go |-> "done", cur |-> None]
                 ELSE [ex |-> [ex1 EXCEPT !.context = DictUpdate(@, node_execution.output_data)],
                       go |-> "next", cur |-> node.next_node]

\* an iteration of approve_execution's loop that does not stop at a gate
ApproveIteration_NoPause(workflow, ex, cur, outcome) ==
    IF cur = None \/ GetNode(workflow, cur) = <<>>
    THEN [ex |-> Finish(ex), go |-> "done", cur |-> None]
    ELSE LET node == GetNode(workflow, cur)[1]
             node_execution == ExecuteNode(node, ex.context, outcome)
             ex1 == [ex EXCEPT !.current_node = cur,
                               !.node_executions = Append(@, node_execution)]
         IN [ex |-> [ex1 EXCEPT !.context = DictUpdate(@, node_execution.output_data)],
             go |-> "next", cur |-> node.next_node]

\* One iteration of the while loop of approve_execution: it has no error branch.
ApproveIteration(workflow, ex, cur, outcome) ==
    IF cur = None \/ GetNode(workflow, cur) = <<>>
    THEN [ex |-> Finish(ex), go |-> "done", cur |-> None]
    ELSE LET node == GetNode(workflow, cur)[1]
             node_execution == ExecuteNode(node, ex.context, outcome)
             ex1 == [ex EXCEPT !.current_node = cur,
                               !.node_executions = Append(@, node_execution)]
         IN IF node_execution.status = AWAITING_APPROVAL
            THEN [ex |-> [ex1 EXCEPT !.status = AWAITING_APPROVAL, !.pending_approval = cur],
                  go |-> "return", cur |-> None]
            ELSE [ex |-> [ex1 EXCEPT !.context = DictUpdate(@, node_execution.output_data)],
                  go |-> "next", cur |-> node.next_node]

\* A run: the execution a loop leaves, the visits it used, and whether it returned at all.
Run(ex, visit, returned) == [ex |-> ex, visit |-> visit, returned |-> returned]

\* execute's while loop from node cur; visit is the number of node visits the call made so far
RECURSIVE ExecuteLoop(_, _, _, _, _)
ExecuteLoop(workflow, ex, cur, oracle, visit) ==
    IF visit >= MaxSteps /\ cur # None /\ GetNode(workflow, cur) # <<>>
    THEN Run(ex, visit, FALSE)
    ELSE Let(ExecuteIteration(workflow, ex, cur, OutcomeAt(oracle, visit + 1)),
             LAMBDA it :
                IF it.go = "next"
                THEN ExecuteLoop(workflow, it.ex, it.cur, oracle, visit + 1)
                ELSE Run(it.ex, visit + Len(it.ex.node_executions) - Len(ex.node_executions),
                         TRUE))

\* approve_execution's while loop from node cur
RECURSIVE ApproveLoop(_, _, _, _, _)
ApproveLoop(workflow, ex, cur, oracle, visit) ==
    IF visit >= MaxSteps /\ cur # None /\ GetNode(workflow, cur) # <<>>
    THEN Run(ex, visit, FALSE)
    ELSE Let(ApproveIteration(workflow, ex, cur, OutcomeAt(oracle, visit + 1)),
             LAMBDA it :
                IF it.go = "next"
                THEN ApproveLoop(workflow, it.ex, it.cur, oracle, visit + 1)
                ELSE Run(it.ex, visit + Len(it.ex.node_executions) - Len(ex.node_executions),
                         TRUE))

\* execute without the test of the workflow id: the loop finds no node and ends
ExecuteRun_NoLookup(workflow_id, params, oracle, visit) ==
    IF ~HasWorkflow(workflow_id)
    THEN Run(Finish(NewExecution(workflow_id, params)), visit, TRUE)
    ELSE [ExecuteLoop(workflows[workflow_id], NewExecution(workflow_id, params),
                      workflows[workflow_id].start_node, oracle, visit)
            EXCEPT !.ex.stored = TRUE]

\* WorkflowEngine.execute as a function: the execution object it returns
ExecuteRun(workflow_id, params, oracle, visit) ==
    IF ~HasWorkflow(workflow_id)
    THEN Run(UnknownWorkflowExecution(workflow_id), visit, TRUE)
    ELSE [ExecuteLoop(workflows[workflow_id], NewExecution(workflow_id, params),
                      workflows[workflow_id].start_node, oracle, visit)
            EXCEPT !.ex.stored = TRUE]

\* WorkflowEngine.approve_execution marks the first record of the paused node id
MarkApproved(node_executions, node_id, approved_by) ==
    LET idx == {i \in 1..Len(node_executions) : node_executions[i].node_id = node_id}
    IN IF idx = {} THEN node_executions
       ELSE LET first == CHOOSE i \in idx : \A j \in idx : i <= j
            IN [node_executions EXCEPT
                   ![first].status = APPROVED,
                   ![first].output_data = DictUpdate(@, ("approved_by" :> approved_by))]

\* CanApproveExecution without the status test
CanApproveExecution_AnyStatus(execs, execution_id) ==
    /\ execution_id \in 1..Len(execs)
    /\ execs[execution_id].stored

\* the guard of approve_execution: the id is stored and the execution is paused
CanApproveExecution(execs, execution_id) ==
    /\ execution_id \in 1..Len(execs)
    /\ execs[execution_id].stored
    /\ execs[execution_id].status = AWAITING_APPROVAL

\* approve_execution, approved branch: mark the gate's record and run on from its next node
ApproveContinue(ex, approved_by, oracle, visit) ==
    IF HasWorkflow(ex.workflow_id) /\ ex.pending_approval # None
       /\ GetNode(workflows[ex.workflow_id], ex.pending_approval) # <<>>
    THEN LET workflow == workflows[ex.workflow_id]
             approval_node == GetNode(workflow, ex.pending_approval)[1]
             ex1 == [ex EXCEPT
                       !.node_executions = MarkApproved(@, ex.pending_approval, approved_by),
                       !.pending_approval = None]
         IN ApproveLoop(workflow, ex1, approval_node.next_node, oracle, visit)
    ELSE Run(Finish(ex), visit, TRUE)

\* ApproveRun that runs on from the paused node itself, not from its next node
ApproveRun_FromGate(ex0, approved, approved_by, oracle, visit) ==
    LET ex == [ex0 EXCEPT !.approved_by = approved_by]
    IN IF ~approved
       THEN Run([ex EXCEPT !.status = REJECTED], visit, TRUE)
       ELSE ApproveLoop(workflows[ex.workflow_id],
                        [ex EXCEPT !.node_executions =
                                      MarkApproved(@, ex.pending_approval, approved_by),
                                   !.pending_approval = None],
                        ex.pending_approval, oracle, visit)

\* ApproveRun that tests `approved` only after the continuation ran
ApproveRun_RejectAfterRun(ex0, approved, approved_by, oracle, visit) ==
    LET ex == [ex0 EXCEPT !.approved_by = approved_by]
        r == ApproveContinue(ex, approved_by, oracle, visit)
    IN IF approved THEN r ELSE [r EXCEPT !.ex.status = REJECTED]

\* WorkflowEngine.approve_execution past its guard, as a function of the execution object
ApproveRun(ex0, approved, approved_by, oracle, visit) ==
    LET ex == [ex0 EXCEPT !.approved_by = approved_by]
    IN IF ~approved
       THEN Run([ex EXCEPT !.status = REJECTED], visit, TRUE)
       ELSE ApproveContinue(ex, approved_by, oracle, visit)

-----------------------------------------------------------------------------
(* Calls *)

\* the call just made (operation, target id, the approved flag it passed) and its result
Ret(op, target, approved, result) ==
    [op |-> op, target |-> target, approved |-> approved, result |-> result]

\* The heaps while a call runs: the objects, the node visits the call has made,
\* whether it has returned, and what the innermost call returned.
World(execs, tsks, visit, returned, result) ==
    [executions |-> execs, tasks |-> tsks, visit |-> visit, returned |-> returned,
     result |-> result]

\* execute with one context dict shared by the executions of the engine
EngineExecute_OneContext(w, workflow_id, params, oracle) ==
    Let(ExecuteRun(workflow_id, params, oracle, w.visit),
        LAMBDA r : World([i \in 1..(Len(w.executions) + 1) |->
                             IF i <= Len(w.executions)
                             THEN [w.executions[i] EXCEPT !.context = r.ex.context]
                             ELSE r.ex],
                         w.tasks, r.visit, r.returned, r.ex.status))

\* WorkflowEngine.execute on the heap: the new object gets the next id
EngineExecute(w, workflow_id, params, oracle) ==
    Let(ExecuteRun(workflow_id, params, oracle, w.visit),
        LAMBDA r : World(Append(w.executions, r.ex), w.tasks, r.visit, r.returned, r.ex.status))

\* WorkflowEngine.approve_execution on the heap: None for an id that is not paused
EngineApprove(w, execution_id, approved, approved_by, oracle) ==
    IF CanApproveExecution(w.executions, execution_id)
    THEN Let(ApproveRun(w.executions[execution_id], approved, approved_by, oracle, w.visit),
             LAMBDA r : World([w.executions EXCEPT ![execution_id] = r.ex], w.tasks,
                              r.visit, r.returned, r.ex.status))
    ELSE [w EXCEPT !.result = None]

Now == World(executions, tasks, 0, TRUE, None)

\* one call of WorkflowEngine.execute that returns
ExecuteCall(workflow_id, params, oracle) ==
    \E w \in {EngineExecute(Now, workflow_id, params, oracle)} :
       /\ w.returned
       /\ executions' = w.executions
       /\ ret' = Ret("execute", Len(w.executions), FALSE, w.result)
       /\ UNCHANGED <<tasks, sessions, loop>>

\* POST /api/workflows/{id}/execute: WorkflowEngine.execute
Execute(workflow_id, params, oracle) ==
    /\ Len(executions) < MaxExecs
    /\ ExecuteCall(workflow_id, params, oracle)

\* POST /api/workflow-executions/{id}/approve: WorkflowEngine.approve_execution
ApproveExecution(execution_id, approved, approved_by, oracle) ==
    \E w \in {EngineApprove(Now, execution_id, approved, approved_by, oracle)} :
       /\ w.returned
       /\ executions' = w.executions
       /\ ret' = Ret("approve_execution", execution_id, approved, w.result)
       /\ UNCHANGED <<tasks, sessions, loop>>

-----------------------------------------------------------------------------
(* SubAgentManager *)

\* A text (a user input, an instruction) is modelled by the set of words written in
\* it, each word named by an English gloss of the keyword of the source.  Within gives
\* the keywords of the source that are substrings of another keyword.
Within(word) ==
    CASE word = "go-live-new" -> {"go-live"}
      [] word = "price-adjustment" -> {"price"}
      [] word = "pricing-model" -> {"pricing"}
      [] word \in {"dispose-stock", "stock-cleanup"} -> {"stock"}
      [] word = "add-dish" -> {"add"}
      [] word = "append-dish" -> {"append"}
      [] word = "configure-dish" -> {"configure"}
      [] OTHER -> {}

\* "kw in text.lower()"
Occurs(kw, words) == \E word \in words : kw = word \/ kw \in Within(word)

Capability(keywords, wfs) == [keywords |-> keywords, workflows |-> wfs]

SubAgent(capabilities, requires_approval_from) ==
    [capabilities |-> capabilities, requires_approval_from |-> requires_approval_from]

\* SubAgentManager._init_sub_agents: the predefined agents, and one further SubAgent
\* value whose capabilities name several workflows.
agents ==
    [a \in {"product-agent", "pricing-agent", "marketing-agent", "supply-chain-agent",
            "analytics-agent", "composite-agent"} |->
        CASE a = "product-agent" ->
               SubAgent(<< Capability({"launch", "new-product", "release", "roll-out",
                                       "debut", "go-live"}, <<"product-launch-workflow">>),
                           Capability({"menu", "dish", "add", "append", "configure"},
                                      <<"product-launch-workflow">>),
                           Capability({"delist", "discontinue", "delete", "remove"}, <<>>) >>,
                        <<>>)
          [] a = "pricing-agent" ->
               SubAgent(<< Capability({"raise-price", "cut-price", "adjust-price", "price",
                                       "pricing"}, <<"price-adjust-workflow">>),
                           Capability({"strategy", "pricing-model", "elasticity"},
                                      <<"price-adjust-workflow">>) >>,
                        <<"finance-director", "regional-director">>)
          [] a = "marketing-agent" ->
               SubAgent(<< Capability({"campaign", "promotion", "threshold-cut", "offer",
                                       "markdown", "discount"}, <<"campaign-setup-workflow">>),
                           Capability({"member", "points", "benefit", "tier"},
                                      <<"campaign-setup-workflow">>) >>,
                        <<>>)
          [] a = "supply-chain-agent" ->
               SubAgent(<< Capability({"stock", "restock", "stocktake"}, <<>>),
                           Capability({"purchase", "raw-material", "supplier"}, <<>>) >>,
                        <<>>)
          [] a = "analytics-agent" ->
               SubAgent(<< Capability({"report", "statement", "weekly", "monthly", "analysis"},
                                      <<"report-gen-workflow">>),
                           Capability({"insight", "trend", "anomaly", "analysis"},
                                      <<"report-gen-workflow">>) >>,
                        <<>>)
          [] a = "composite-agent" ->
               SubAgent(<< Capability({"first"},
                                      <<"report-gen-workflow", "linear-gate-workflow">>),
                           Capability({"second"},
                                      <<"linear-gate-workflow", "on-error-workflow">>),
                           Capability({"faulty"},
                                      <<"no-such-workflow", "linear-gate-workflow">>),
                           Capability({"gated"}, <<"two-gates-workflow">>) >>,
                        <<>>)]

AgentIds == DOMAIN agents

\* list(dict.fromkeys(planned)): the first occurrence of every element, in order
RECURSIVE Dedupe(_)
Dedupe(seq) ==
    IF seq = <<>> THEN <<>>
    ELSE LET init == Dedupe(SubSeq(seq, 1, Len(seq) - 1))
             last == seq[Len(seq)]
         IN IF \E i \in 1..Len(init) : init[i] = last THEN init ELSE Append(init, last)

\* SubAgentManager._plan_workflows
RECURSIVE PlannedOf(_, _)
PlannedOf(capabilities, instruction) ==
    IF capabilities = <<>> THEN <<>>
    ELSE (IF \E kw \in capabilities[1].keywords : Occurs(kw, instruction)
          THEN capabilities[1].workflows ELSE <<>>)
         \o PlannedOf(Tail(capabilities), instruction)

\* a plan that falls back to the workflows of the first capability
PlanWorkflows_Fallback(agent_id, instruction) ==
    IF PlannedOf(agents[agent_id].capabilities, instruction) = <<>>
    THEN agents[agent_id].capabilities[1].workflows
    ELSE Dedupe(PlannedOf(agents[agent_id].capabilities, instruction))

PlanWorkflows(agent_id, instruction) ==
    Dedupe(PlannedOf(agents[agent_id].capabilities, instruction))

\* SubAgentManager.create_task: the task object; one for an unknown agent is not stored
NewTask(agent_id, instruction, context) ==
    IF agent_id \in AgentIds
    THEN [agent_id |-> agent_id, instruction |-> instruction, context |-> context,
          planned_workflows |-> PlanWorkflows(agent_id, instruction),
          workflow_executions |-> <<>>, status |-> PENDING, result |-> <<>>,
          error |-> None, stored |-> TRUE]
    ELSE [agent_id |-> agent_id, instruction |-> instruction, context |-> EmptyDict,
          planned_workflows |-> <<>>, workflow_executions |-> <<>>, status |-> ERROR,
          result |-> <<>>, error |-> "not found", stored |-> FALSE]

ManagerCreateTask(w, agent_id, instruction, context) ==
    [w EXCEPT !.tasks = Append(@, NewTask(agent_id, instruction, context)),
              !.result = NewTask(agent_id, instruction, context).status]

\* the test of execute_task and approve_task that the task id is in the registry
HasTask(tsks, task_id) == task_id \in 1..Len(tsks) /\ tsks[task_id].stored

\* the body of the for loop without the return at a pause
AfterWorkflow_NoReturn(w, task_id) ==
    LET execution_id == Len(w.executions)
        workflow_execution == w.executions[execution_id]
        w1 == [w EXCEPT !.tasks[task_id].workflow_executions = Append(@, execution_id)]
    IN IF workflow_execution.status = AWAITING_APPROVAL
       THEN [w1 EXCEPT !.tasks[task_id].status = AWAITING_APPROVAL, !.result = None]
       ELSE IF workflow_execution.output_result \notin {<<>>, <<EmptyDict>>}
            THEN [w1 EXCEPT !.tasks[task_id].context =
                              DictUpdate(@, workflow_execution.output_result[1]),
                            !.result = None]
            ELSE [w1 EXCEPT !.result = None]

\* the body of the for loop of execute_task after execute returned: w holds the new
\* execution as the last object of the heap
AfterWorkflow(w, task_id) ==
    LET execution_id == Len(w.executions)
        workflow_execution == w.executions[execution_id]
        w1 == [w EXCEPT !.tasks[task_id].workflow_executions = Append(@, execution_id)]
    IN IF workflow_execution.status = AWAITING_APPROVAL
       THEN [w1 EXCEPT !.tasks[task_id].status = AWAITING_APPROVAL,
                       !.result = AWAITING_APPROVAL]
       ELSE IF workflow_execution.output_result \notin {<<>>, <<EmptyDict>>}
            THEN [w1 EXCEPT !.tasks[task_id].context =
                              DictUpdate(@, workflow_execution.output_result[1]),
                            !.result = None]
            ELSE [w1 EXCEPT !.result = None]

\* the for loop of execute_task, from the i-th planned workflow
RECURSIVE ExecuteTaskLoop(_, _, _, _)
ExecuteTaskLoop(w, task_id, i, oracle) ==
    IF i > Len(w.tasks[task_id].planned_workflows)
    THEN [w EXCEPT !.tasks[task_id].status = SUCCESS,
                   !.tasks[task_id].result = <<Len(w.tasks[task_id].workflow_executions)>>,
                   !.result = SUCCESS]
    ELSE Let(EngineExecute(w, w.tasks[task_id].planned_workflows[i],
                           w.tasks[task_id].context, oracle),
             LAMBDA w1 :
                IF ~w1.returned
                THEN w1
                ELSE Let(AfterWorkflow(w1, task_id),
                         LAMBDA w2 :
                            IF w2.result = AWAITING_APPROVAL
                            THEN w2
                            ELSE ExecuteTaskLoop(w2, task_id, i + 1, oracle)))

\* execute_task whose loop starts at the second planned workflow
ManagerExecuteTask_SkipsFirst(w, task_id, oracle) ==
    IF ~HasTask(w.tasks, task_id)
    THEN [w EXCEPT !.result = ERROR]
    ELSE Let([w EXCEPT !.tasks[task_id].status = RUNNING],
             LAMBDA w1 : ExecuteTaskLoop(w1, task_id, 2, oracle))

\* SubAgentManager.execute_task; for an id that is not stored it returns an error object
ManagerExecuteTask(w, task_id, oracle) ==
    IF ~HasTask(w.tasks, task_id)
    THEN [w EXCEPT !.result = ERROR]
    ELSE Let([w EXCEPT !.tasks[task_id].status = RUNNING],
             LAMBDA w1 : ExecuteTaskLoop(w1, task_id, 1, oracle))

\* the for loop of approve_task over the task's executions, from the j-th
RECURSIVE ApproveTaskLoop(_, _, _, _, _, _)
ApproveTaskLoop(w, task_id, j, approved, approved_by, oracle) ==
    IF j > Len(w.tasks[task_id].workflow_executions) \/ ~w.returned
    THEN w
    ELSE Let(IF w.executions[w.tasks[task_id].workflow_executions[j]].status
                   = AWAITING_APPROVAL
             THEN EngineApprove(w, w.tasks[task_id].workflow_executions[j],
                                approved, approved_by, oracle)
             ELSE w,
             LAMBDA w1 : ApproveTaskLoop(w1, task_id, j + 1, approved, approved_by, oracle))

\* approve_task that passes only an approval on to the workflow engine
ManagerApproveTask_RejectTaskOnly(w, task_id, approved, approved_by, oracle) ==
    IF ~(HasTask(w.tasks, task_id) /\ w.tasks[task_id].status = AWAITING_APPROVAL)
    THEN [w EXCEPT !.result = None]
    ELSE IF approved
         THEN Let(ApproveTaskLoop(w, task_id, 1, approved, approved_by, oracle),
                  LAMBDA w1 : IF ~w1.returned THEN w1
                              ELSE ManagerExecuteTask(w1, task_id, oracle))
         ELSE [w EXCEPT !.tasks[task_id].status = REJECTED, !.result = REJECTED]

\* approve_task without its test of the task's status
ManagerApproveTask_AnyStatus(w, task_id, approved, approved_by, oracle) ==
    IF ~HasTask(w.tasks, task_id)
    THEN [w EXCEPT !.result = None]
    ELSE Let(ApproveTaskLoop(w, task_id, 1, approved, approved_by, oracle),
             LAMBDA w1 :
                IF ~w1.returned
                THEN w1
                ELSE IF approved
                     THEN ManagerExecuteTask(w1, task_id, oracle)
                     ELSE [w1 EXCEPT !.tasks[task_id].status = REJECTED,
                                     !.result = REJECTED])

\* SubAgentManager.approve_task
ManagerApproveTask(w, task_id, approved, approved_by, oracle) ==
    IF ~(HasTask(w.tasks, task_id) /\ w.tasks[task_id].status = AWAITING_APPROVAL)
    THEN [w EXCEPT !.result = None]
    ELSE Let(ApproveTaskLoop(w, task_id, 1, approved, approved_by, oracle),
             LAMBDA w1 :
                IF ~w1.returned
                THEN w1
                ELSE IF approved
                     THEN ManagerExecuteTask(w1, task_id, oracle)
                     ELSE [w1 EXCEPT !.tasks[task_id].status = REJECTED,
                                     !.result = REJECTED])

\* the contexts a caller passes to create_task
CallContexts == {EmptyDict}

\* the agent ids and instructions a caller passes to create_task: an instruction that
\* matches a capability, one that matches none, and an agent that is not registered
CallTasks ==
    { <<"pricing-agent", {"adjust-price"}>>,
      <<"pricing-agent", {}>>,
      <<"composite-agent", {"first", "second"}>>,
      <<"composite-agent", {"second"}>>,
      <<"composite-agent", {"faulty"}>>,
      <<"composite-agent", {"gated"}>>,
      <<"supply-chain-agent", {"stock"}>>,
      <<"no-such-agent", {}>> }

\* SubAgentManager.create_task
CreateTask(agent_id, instruction, context) ==
    /\ Len(tasks) < MaxTasks
    /\ \E w \in {ManagerCreateTask(Now, agent_id, instruction, context)} :
       /\ tasks' = w.tasks
       /\ ret' = Ret("create_task", Len(w.tasks), FALSE, w.result)
       /\ UNCHANGED <<executions, sessions, loop>>

\* SubAgentManager.execute_task, called once for a task, as process does
ExecuteTask(task_id, oracle) ==
    /\ HasTask(tasks, task_id) => tasks[task_id].status = PENDING
    /\ \E w \in {ManagerExecuteTask(Now, task_id, oracle)} :
       /\ w.returned
       /\ Len(w.executions) <= MaxTaskExecs
       /\ executions' = w.executions
       /\ tasks' = w.tasks
       /\ ret' = Ret("execute_task", task_id, FALSE, w.result)
       /\ UNCHANGED <<sessions, loop>>

\* one call of SubAgentManager.approve_task that returns, the heap holding at most
\* limit executions after it
ApproveTaskCall(task_id, approved, approved_by, oracle, limit) ==
    \E w \in {ManagerApproveTask(Now, task_id, approved, approved_by, oracle)} :
       /\ w.returned
       /\ Len(w.executions) <= limit
       /\ executions' = w.executions
       /\ tasks' = w.tasks
       /\ ret' = Ret("approve_task", task_id, approved, w.result)
       /\ UNCHANGED <<sessions, loop>>

\* SubAgentManager.approve_task
ApproveTask(task_id, approved, approved_by, oracle) ==
    ApproveTaskCall(task_id, approved, approved_by, oracle, MaxTaskExecs)

-----------------------------------------------------------------------------
(* MasterAgent *)

\* MasterAgent.INTENT_PATTERNS, its intents in the order of the dict
IntentOrder ==
    << "product_launch", "menu_config", "price_adjust", "campaign_setup", "report_gen",
       "inventory_check", "clearance_sale", "seasonal_launch" >>

Pattern(keywords, required_agents) ==
    [keywords |-> keywords, required_agents |-> required_agents]

INTENT_PATTERNS ==
    [intent \in {IntentOrder[i] : i \in 1..Len(IntentOrder)} |->
        CASE intent = "product_launch" ->
               Pattern({"launch", "new-product", "release", "roll-out", "debut", "go-live-new"},
                       <<"product-agent">>)
          [] intent = "menu_config" ->
               Pattern({"dish", "menu", "add-dish", "append-dish", "configure-dish"},
                       <<"product-agent">>)
          [] intent = "price_adjust" ->
               Pattern({"raise-price", "cut-price", "adjust-price", "price-adjustment",
                        "pricing"}, <<"pricing-agent">>)
          [] intent = "campaign_setup" ->
               Pattern({"campaign", "promotion", "threshold-cut", "offer", "markdown",
                        "discount"}, <<"marketing-agent">>)
          [] intent = "report_gen" ->
               Pattern({"report", "statement", "weekly", "monthly", "analysis", "statistics"},
                       <<"analytics-agent">>)
          [] intent = "inventory_check" ->
               Pattern({"stock", "stocktake", "restock", "shortage"}, <<"supply-chain-agent">>)
          [] intent = "clearance_sale" ->
               Pattern({"clearance", "near-expiry", "expired", "dispose-stock", "stock-cleanup"},
                       <<"supply-chain-agent", "pricing-agent">>)
          [] intent = "seasonal_launch" ->
               Pattern({"season", "limited", "summer", "winter", "spring", "autumn", "festival"},
                       <<"product-agent", "marketing-agent">>)]

\* A user input: its words, the first number written in it (as a string; None if it
\* has no digit) and whether it holds a rule "spend N save M".
Text(words, price, discount) == [words |-> words, price |-> price, discount |-> discount]

\* MasterAgent._extract_entities, the entities _analyze_intent reads
ExtractEntities(text) ==
    (IF text.price # None THEN "price" :> text.price ELSE EmptyDict)
    @@ (IF text.discount THEN "discount" :> "rule" ELSE EmptyDict)

\* the truth value of entities.get(key): a missing key and the number 0 are false
Truthy(entities, key) == key \in DOMAIN entities /\ entities[key] # "0"

\* "sum(1 for kw in config['keywords'] if kw in input_lower)"
Matches(intent, words) ==
    Cardinality({kw \in INTENT_PATTERNS[intent].keywords : Occurs(kw, words)})

\* the for loop of _analyze_intent over the first i intents; the score matches/len is
\* kept as the fraction num/den
RECURSIVE BestIntent(_, _)
BestIntent(words, i) ==
    IF i = 0
    THEN [intent_type |-> "unknown", num |-> 0, den |-> 1, required_agents |-> <<>>]
    ELSE Let(BestIntent(words, i - 1),
             LAMBDA best :
                LET intent == IntentOrder[i]
                    matches == Matches(intent, words)
                    len == Cardinality(INTENT_PATTERNS[intent].keywords)
                IN IF matches > 0 /\ matches * best.den > best.num * len
                   THEN [intent_type |-> intent, num |-> matches, den |-> len,
                         required_agents |-> INTENT_PATTERNS[intent].required_agents]
                   ELSE best)

\* "min(confidence + 0.3, 1.0)", as a fraction
Confidence(num, den) ==
    IF 10 * num + 3 * den >= 10 * den THEN <<1, 1>> ELSE <<10 * num + 3 * den, 10 * den>>

\* "if cond and x not in seq: seq.append(x)"
AppendIfAbsent(seq, x, cond) ==
    IF cond /\ ~(\E i \in 1..Len(seq) : seq[i] = x) THEN Append(seq, x) ELSE seq

\* MasterAgent._analyze_intent
AnalyzeIntent(text) ==
    Let(BestIntent(text.words, Len(IntentOrder)),
        LAMBDA best :
           LET entities == ExtractEntities(text)
           IN [intent_type |-> best.intent_type,
               confidence |-> Confidence(best.num, best.den),
               entities |-> entities,
               required_agents |->
                   AppendIfAbsent(AppendIfAbsent(best.required_agents, "pricing-agent",
                                                 Truthy(entities, "price")),
                                  "marketing-agent", Truthy(entities, "discount"))])

\* MasterAgent._create_execution_plan: the agents to dispatch to and the approval points
CreateExecutionPlan(intent) ==
    LET Known(a) == a \in AgentIds
        NeedsApproval(a) == a \in AgentIds /\ agents[a].requires_approval_from # <<>>
    IN [agent_tasks |-> SelectSeq(intent.required_agents, Known),
        approval_points |-> SelectSeq(intent.required_agents, NeedsApproval)]

\* MasterAgent._dispatch_to_agents, from the i-th task of the plan
RECURSIVE DispatchLoop(_, _, _, _, _)
DispatchLoop(w, agent_ids, i, instruction, entities) ==
    IF i > Len(agent_ids)
    THEN w
    ELSE Let(ManagerCreateTask(w, agent_ids[i], instruction, entities),
             LAMBDA w1 : DispatchLoop(w1, agent_ids, i + 1, instruction, entities))

\* the session object process builds; agent_tasks holds the ids of the task objects
NewSession(text, intent_analysis, execution_plan, agent_tasks) ==
    [user_input |-> text, intent_type |-> intent_analysis.intent_type,
     confidence |-> intent_analysis.confidence,
     required_agents |-> intent_analysis.required_agents,
     approval_points |-> execution_plan.approval_points,
     agent_tasks |-> agent_tasks, status |-> RUNNING, pending_approvals |-> <<>>,
     stored |-> FALSE]

\* a loop over the tasks that ends at the first task that pauses
RECURSIVE ProcessTasksLoop_StopsAtPause(_, _, _, _)
ProcessTasksLoop_StopsAtPause(w, session, i, oracle) ==
    IF i > Len(session.agent_tasks) \/ ~w.returned
    THEN [w |-> w, session |-> session]
    ELSE Let(ManagerExecuteTask(w, session.agent_tasks[i], oracle),
             LAMBDA w1 :
                IF w1.returned /\ w1.tasks[session.agent_tasks[i]].status = AWAITING_APPROVAL
                THEN [w |-> w1,
                      session |-> [session EXCEPT
                                      !.status = AWAITING_APPROVAL,
                                      !.pending_approvals = Append(@, session.agent_tasks[i])]]
                ELSE ProcessTasksLoop_StopsAtPause(w1, session, i + 1, oracle))

\* step 4 of process: the for loop over the tasks, from the i-th
RECURSIVE ProcessTasksLoop(_, _, _, _)
ProcessTasksLoop(w, session, i, oracle) ==
    IF i > Len(session.agent_tasks) \/ ~w.returned
    THEN [w |-> w, session |-> session]
    ELSE Let(ManagerExecuteTask(w, session.agent_tasks[i], oracle),
             LAMBDA w1 :
                Let(IF w1.returned
                       /\ w1.tasks[session.agent_tasks[i]].status = AWAITING_APPROVAL
                    THEN [session EXCEPT !.status = AWAITING_APPROVAL,
                                         !.pending_approvals =
                                             Append(@, session.agent_tasks[i])]
                    ELSE session,
                    LAMBDA session1 : ProcessTasksLoop(w1, session1, i + 1, oracle)))

\* MasterAgent.process
MasterProcess(w, text, oracle) ==
    Let(AnalyzeIntent(text),
        LAMBDA intent_analysis :
    Let(CreateExecutionPlan(intent_analysis),
        LAMBDA execution_plan :
    Let(DispatchLoop(w, execution_plan.agent_tasks, 1, text.words, intent_analysis.entities),
        LAMBDA w1 :
    Let(ProcessTasksLoop(w1,
                         NewSession(text, intent_analysis, execution_plan,
                                    [i \in 1..Len(execution_plan.agent_tasks) |->
                                        Len(w.tasks) + i]),
                         1, oracle),
        LAMBDA r :
           [r EXCEPT !.session.status = IF @ # AWAITING_APPROVAL THEN SUCCESS ELSE @,
                     !.session.stored = TRUE]))))

\* MasterAgent._estimate_impact: the number of planned tasks (the base of the estimated
\* duration), whether an approval is required and the roles that give it
EstimateImpact(intent, plan) ==
    [planned_tasks |-> Len(plan.agent_tasks),
     requires_approval |-> Len(plan.approval_points) > 0,
     approval_roles |->
         UNION { {agents[plan.approval_points[i]].requires_approval_from[j] :
                     j \in 1..Len(agents[plan.approval_points[i]].requires_approval_from)} :
                 i \in 1..Len(plan.approval_points) }]

\* a preview that hands its plan to the agents as process does
MasterPreview_Dispatches(w, text) ==
    Let(AnalyzeIntent(text),
        LAMBDA intent_analysis :
    Let(CreateExecutionPlan(intent_analysis),
        LAMBDA execution_plan :
           [w |-> DispatchLoop(w, execution_plan.agent_tasks, 1, text.words,
                               intent_analysis.entities),
            preview |-> [intent |-> intent_analysis.intent_type,
                         confidence |-> intent_analysis.confidence,
                         entities |-> intent_analysis.entities,
                         estimated_impact |-> EstimateImpact(intent_analysis, execution_plan),
                         required_agents |-> intent_analysis.required_agents]]))

\* MasterAgent.preview: the intent, the plan and the impact, computed from the text and
\* the agent registry alone
MasterPreview(w, text) ==
    Let(AnalyzeIntent(text),
        LAMBDA intent_analysis :
    Let(CreateExecutionPlan(intent_analysis),
        LAMBDA execution_plan :
           [w |-> w,
            preview |-> [intent |-> intent_analysis.intent_type,
                         confidence |-> intent_analysis.confidence,
                         entities |-> intent_analysis.entities,
                         estimated_impact |-> EstimateImpact(intent_analysis, execution_plan),
                         required_agents |-> intent_analysis.required_agents]]))

\* the test of approve_session that the session id is in the registry
HasSession(sess, session_id) == session_id \in 1..Len(sess) /\ sess[session_id].stored

\* the for loop of approve_session over pending_approvals, from the i-th
RECURSIVE ApprovePendingLoop(_, _, _, _, _, _)
ApprovePendingLoop(w, pending_approvals, i, approved, approved_by, oracle) ==
    IF i > Len(pending_approvals) \/ ~w.returned
    THEN w
    ELSE Let(ManagerApproveTask(w, pending_approvals[i], approved, approved_by, oracle),
             LAMBDA w1 : ApprovePendingLoop(w1, pending_approvals, i + 1,
                                            approved, approved_by, oracle))

\* approve_session without the loop that collects the tasks that wait again
AfterApprovals_NoRecollect(tsks, session, approved) ==
    LET all_complete == \A i \in 1..Len(session.agent_tasks) :
                           tsks[session.agent_tasks[i]].status \in {SUCCESS, REJECTED}
        waiting == \E i \in 1..Len(session.agent_tasks) :
                      tsks[session.agent_tasks[i]].status = AWAITING_APPROVAL
    IN IF approved
       THEN [session EXCEPT !.pending_approvals = <<>>,
                            !.status = IF ~all_complete /\ waiting
                                       THEN AWAITING_APPROVAL ELSE SUCCESS]
       ELSE [session EXCEPT !.pending_approvals = <<>>, !.status = REJECTED]

\* approve_session that takes an approval as the end of the session
AfterApprovals_AlwaysSuccess(tsks, session, approved) ==
    [session EXCEPT !.pending_approvals = <<>>,
                    !.status = IF approved THEN SUCCESS ELSE REJECTED]

\* approve_session after its loop: the status and the pending list of the session
AfterApprovals(tsks, session, approved) ==
    LET all_complete == \A i \in 1..Len(session.agent_tasks) :
                           tsks[session.agent_tasks[i]].status \in {SUCCESS, REJECTED}
        Awaiting(task_id) == tsks[task_id].status = AWAITING_APPROVAL
        pending_approvals == SelectSeq(session.agent_tasks, Awaiting)
    IN IF approved
       THEN IF all_complete
            THEN [session EXCEPT !.pending_approvals = <<>>, !.status = SUCCESS]
            ELSE [session EXCEPT !.pending_approvals = pending_approvals,
                                 !.status = IF pending_approvals # <<>>
                                            THEN AWAITING_APPROVAL ELSE SUCCESS]
       ELSE [session EXCEPT !.pending_approvals = <<>>, !.status = REJECTED]

\* the guard of approve_session without its test of the status
CanApproveSession_AnyStatus(sess, session_id) == HasSession(sess, session_id)

\* the guard of approve_session: a stored session that waits for approval
CanApproveSession(sess, session_id) ==
    HasSession(sess, session_id) /\ sess[session_id].status = AWAITING_APPROVAL

\* approve_session that approves what waits in every session
MasterApproveSession_AllPending(w, sess, session_id, approved, approved_by, oracle) ==
    IF ~CanApproveSession(sess, session_id)
    THEN [w |-> [w EXCEPT !.result = None], sessions |-> sess]
    ELSE Let(ApprovePendingLoop(w, SelectSeq([t \in 1..Len(w.tasks) |-> t],
                                             LAMBDA t : w.tasks[t].status = AWAITING_APPROVAL),
                                1, approved, approved_by, oracle),
             LAMBDA w1 :
                Let(AfterApprovals(w1.tasks, sess[session_id], approved),
                    LAMBDA session :
                       [w |-> [w1 EXCEPT !.result = session.status],
                        sessions |-> [sess EXCEPT ![session_id] = session]]))

\* MasterAgent.approve_session; result None is its "return None"
MasterApproveSession(w, sess, session_id, approved, approved_by, oracle) ==
    IF ~CanApproveSession(sess, session_id)
    THEN [w |-> [w EXCEPT !.result = None], sessions |-> sess]
    ELSE Let(ApprovePendingLoop(w, sess[session_id].pending_approvals, 1,
                                approved, approved_by, oracle),
             LAMBDA w1 :
                Let(AfterApprovals(w1.tasks, sess[session_id], approved),
                    LAMBDA session :
                       [w |-> [w1 EXCEPT !.result = session.status],
                        sessions |-> [sess EXCEPT ![session_id] = session]]))

\* the user inputs a caller passes to process
CallTexts ==
    { Text({}, None, FALSE),
      Text({"adjust-price"}, None, FALSE),
      Text({"analysis"}, "0", FALSE),
      Text({"launch"}, "25", FALSE),
      Text({"clearance", "near-expiry", "cut-price"}, None, FALSE),
      Text({"campaign"}, "100", TRUE) }

\* one call of MasterAgent.process that returns, the heap holding at most limit
\* executions after it
ProcessCall(text, oracle, limit) ==
    \E r \in {MasterProcess(Now, text, oracle)} :
       /\ r.w.returned
       /\ Len(r.w.executions) <= limit
       /\ executions' = r.w.executions
       /\ tasks' = r.w.tasks
       /\ sessions' = Append(sessions, r.session)
       /\ ret' = Ret("process", Len(sessions) + 1, FALSE, r.session.status)
       /\ UNCHANGED loop

\* POST /api/process
Process(text, oracle) ==
    /\ Len(sessions) < MaxSessions
    /\ ProcessCall(text, oracle, MaxTaskExecs)

\* one call of MasterAgent.approve_session that returns, the heap holding at most
\* limit executions after it
ApproveSessionCall(session_id, approved, approved_by, oracle, limit) ==
    \E r \in {MasterApproveSession(Now, sessions, session_id, approved, approved_by, oracle)} :
       /\ r.w.returned
       /\ Len(r.w.executions) <= limit
       /\ executions' = r.w.executions
       /\ tasks' = r.w.tasks
       /\ sessions' = r.sessions
       /\ ret' = Ret("approve_session", session_id, approved, r.w.result)
       /\ UNCHANGED loop

\* POST /api/sessions/{session_id}/approve
ApproveSession(session_id, approved, approved_by, oracle) ==
    ApproveSessionCall(session_id, approved, approved_by, oracle, MaxTaskExecs)

\* POST /api/preview; the result kept of the call is the intent it reports
Preview(text) ==
    \E r \in {MasterPreview(Now, text)} :
       /\ executions' = r.w.executions
       /\ tasks' = r.w.tasks
       /\ sessions' = sessions
       /\ ret' = Ret("preview", 0, r.preview.estimated_impact.requires_approval,
                     r.preview.intent)
       /\ UNCHANGED loop

-----------------------------------------------------------------------------
(* The run loop of execute, one iteration per step *)

\* no call of execute is in progress
LoopIdle == [go |-> "idle", workflow_id |-> None, cur |-> None,
             ex |-> NewExecution(None, EmptyDict)]

\* of the log, the loop state keeps the record of the last visit only
LastRecord(node_executions) ==
    IF node_executions = <<>> THEN <<>> ELSE <<node_executions[Len(node_executions)]>>

\* execute up to its while loop
LoopStart(workflow_id, params) ==
    /\ loop.go \in {"idle", "returned"}
    /\ loop' = IF HasWorkflow(workflow_id)
               THEN [go |-> "next", workflow_id |-> workflow_id,
                     cur |-> workflows[workflow_id].start_node,
                     ex |-> NewExecution(workflow_id, params)]
               ELSE [go |-> "returned", workflow_id |-> workflow_id, cur |-> None,
                     ex |-> UnknownWorkflowExecution(workflow_id)]
    /\ UNCHANGED <<executions, tasks, sessions, ret>>

\* one test of the while condition of execute and, if it holds, one pass through the body
LoopStep(outcome) ==
    /\ loop.go = "next"
    /\ LET it == ExecuteIteration(workflows[loop.workflow_id], loop.ex, loop.cur, outcome)
       IN loop' = [go |-> it.go, workflow_id |-> loop.workflow_id, cur |-> it.cur,
                   ex |-> [it.ex EXCEPT !.node_executions = LastRecord(@)]]
    /\ UNCHANGED <<executions, tasks, sessions, ret>>

\* execute after its loop, or at the pause: the execution is stored and returned
LoopReturn ==
    /\ loop.go \in {"done", "return"}
    /\ loop' = [loop EXCEPT !.go = "returned", !.ex.stored = TRUE]
    /\ UNCHANGED <<executions, tasks, sessions, ret>>

LoopRun == \E outcome \in Outcomes : LoopStep(outcome)

-----------------------------------------------------------------------------
(* Specification of the engine alone *)

Init ==
    /\ executions = <<>>
    /\ tasks = <<>>
    /\ sessions = <<>>
    /\ ret = Ret("init", 0, FALSE, None)
    /\ loop = LoopIdle

NextEngine ==
    \/ \E w \in CallWorkflowIds, p \in CallParams, o \in Oracles : Execute(w, p, o)
    \/ \E e \in 1..MaxExecs, a \in BOOLEAN, by \in Approvers, o \in Oracles :
          ApproveExecution(e, a, by, o)

SpecEngine == Init /\ [][NextEngine]_vars

\* The engine on workflows with gates, approved by one of several people; an execution
\* is approved as long as it holds fewer than MaxRecords records.
GateWorkflowIds == {"review-loop-workflow", "two-gates-workflow", "gate-on-error-workflow"}

GateApprovers == {"director", "auditor"}

NextGate ==
    \/ \E w \in GateWorkflowIds, p \in CallParams, o \in Oracles : Execute(w, p, o)
    \/ \E e \in 1..MaxExecs, a \in BOOLEAN, by \in GateApprovers, o \in Oracles :
          /\ e <= Len(executions) => Len(executions[e].node_executions) < MaxRecords
          /\ ApproveExecution(e, a, by, o)

SpecGate == Init /\ [][NextGate]_vars

NextTask ==
    \/ \E call \in CallTasks, c \in CallContexts : CreateTask(call[1], call[2], c)
    \/ \E t \in 1..(MaxTasks + 1), o \in TaskOracles : ExecuteTask(t, o)
    \/ \E t \in 1..(MaxTasks + 1), a \in BOOLEAN, by \in Approvers, o \in TaskOracles :
          ApproveTask(t, a, by, o)

SpecTask == Init /\ [][NextTask]_vars

NextLoop ==
    \/ \E w \in CallWorkflowIds, p \in CallParams : LoopStart(w, p)
    \/ LoopRun
    \/ LoopReturn

\* a call that has entered its loop keeps running: the interpreter does not stop
SpecLoop == Init /\ [][NextLoop]_vars /\ WF_vars(LoopRun) /\ WF_vars(LoopReturn)

-----------------------------------------------------------------------------
(* Specification of the application: sessions through the master agent *)

Next ==
    \/ \E text \in CallTexts, o \in TaskOracles : Process(text, o)
    \/ \E s \in 1..(MaxSessions + 1), a \in BOOLEAN, by \in Approvers, o \in TaskOracles :
          ApproveSession(s, a, by, o)

Spec == Init /\ [][Next]_vars

\* The master agent with its preview: the texts a caller previews and then processes,
\* every action succeeding
PreviewTexts ==
    CallTexts \cup {Text({"launch"}, None, FALSE),
                    Text({"adjust-price", "campaign"}, None, TRUE)}

NextPreview ==
    \/ \E text \in PreviewTexts : Preview(text)
    \/ \E text \in PreviewTexts : Process(text, <<>>)
    \/ \E s \in 1..(MaxSessions + 1), a \in BOOLEAN, by \in Approvers :
          ApproveSession(s, a, by, <<>>)

SpecPreview == Init /\ [][NextPreview]_vars

-----------------------------------------------------------------------------
(* Specification of the application with both entries: a session through the master *)
(* agent, and workflows executed and approved directly through the engine           *)

\* the workflow ids and the texts the callers of the two entries pass
AppWorkflowIds == {"linear-gate-workflow", "report-gen-workflow"}

AppTexts == {Text({"adjust-price"}, None, FALSE)}

\* POST /api/workflows/{id}/execute next to sessions
AppExecute(workflow_id, params, oracle) ==
    /\ Len(executions) < MaxAppExecs
    /\ ExecuteCall(workflow_id, params, oracle)

\* POST /api/process next to direct executions
AppProcess(text, oracle) ==
    /\ Len(sessions) < MaxSessions
    /\ ProcessCall(text, oracle, MaxAppExecs)

\* POST /api/sessions/{session_id}/approve next to direct executions
AppApproveSession(session_id, approved, approved_by, oracle) ==
    ApproveSessionCall(session_id, approved, approved_by, oracle, MaxAppExecs)

\* SubAgentManager.approve_task on the task of a session
AppApproveTask(task_id, approved, approved_by, oracle) ==
    ApproveTaskCall(task_id, approved, approved_by, oracle, MaxAppExecs)

NextApp ==
    \/ \E text \in AppTexts, o \in TaskOracles : AppProcess(text, o)
    \/ \E s \in 1..(MaxSessions + 1), a \in BOOLEAN, by \in Approvers :
          AppApproveSession(s, a, by, <<>>)
    \/ \E t \in 1..(MaxSessions + 1), a \in BOOLEAN, by \in Approvers :
          AppApproveTask(t, a, by, <<>>)
    \/ \E w \in AppWorkflowIds : AppExecute(w, EmptyDict, <<>>)
    \/ \E e \in 1..MaxAppExecs, a \in BOOLEAN, by \in Approvers :
          ApproveExecution(e, a, by, <<>>)

SpecApp == Init /\ [][NextApp]_vars

\* The POST endpoints of the application: sessions of one and of two agents, next to
\* direct executions and their approvals.
ApiTexts ==
    { Text({"adjust-price"}, None, FALSE),
      Text({"clearance", "near-expiry", "cut-price"}, None, FALSE) }

NextApi ==
    \/ \E text \in ApiTexts, o \in TaskOracles : AppProcess(text, o)
    \/ \E s \in 1..(MaxSessions + 1), a \in BOOLEAN, by \in Approvers :
          AppApproveSession(s, a, by, <<>>)
    \/ \E w \in AppWorkflowIds : AppExecute(w, EmptyDict, <<>>)
    \/ \E e \in 1..MaxAppExecs, a \in BOOLEAN, by \in Approvers :
          ApproveExecution(e, a, by, <<>>)

SpecApi == Init /\ [][NextApi]_vars

\* Several sessions next to each other: each is processed, approved as a session, and
\* its executions are approved directly.
NextPair ==
    \/ \E text \in AppTexts :
          /\ Len(sessions) < MaxPairSessions
          /\ ProcessCall(text, <<>>, MaxPairExecs)
    \/ \E s \in 1..(MaxPairSessions + 1), a \in BOOLEAN, by \in Approvers :
          ApproveSessionCall(s, a, by, <<>>, MaxPairExecs)
    \/ \E e \in 1..MaxPairExecs, a \in BOOLEAN, by \in Approvers :
          ApproveExecution(e, a, by, <<>>)

SpecPair == Init /\ [][NextPair]_vars

\* The engine with the ids it issues: execute draws "str(uuid.uuid4())[:8]", one of the
\* strings of eight hexadecimal digits, and stores the object under it; storing under a
\* key the registry holds replaces the entry, so the object stored there before is no
\* longer in the registry.  approve_execution looks the id up in the registry.
NextIds ==
    \/ \E workflow_id \in AppWorkflowIds, execution_id \in {"3f2a9c1e", "b07d44e2"} :
          /\ Len(executions) < MaxPairExecs
          /\ \E w \in {EngineExecute(Now, workflow_id, EmptyDict, <<>>)} :
                /\ w.returned
                /\ executions' =
                      [i \in 1..Len(w.executions) |->
                          IF i = Len(w.executions)
                          THEN w.executions[i] @@ [execution_id |-> execution_id]
                          ELSE [w.executions[i] EXCEPT
                                   !.stored = @ /\ w.executions[i].execution_id
                                                      # execution_id]]
                /\ ret' = Ret("execute", Len(w.executions), FALSE, w.result)
                /\ UNCHANGED <<tasks, sessions, loop>>
    \/ \E execution_id \in {"3f2a9c1e", "b07d44e2"}, a \in BOOLEAN, by \in Approvers :
          LET found == {i \in 1..Len(executions) :
                           executions[i].stored
                           /\ executions[i].execution_id = execution_id}
          IN \E e \in (IF found = {} THEN {Len(executions) + 1} ELSE found) :
                ApproveExecution(e, a, by, <<>>)

SpecIds == Init /\ [][NextIds]_vars

-----------------------------------------------------------------------------
(* Graph facts, computed from the definition alone *)

NodeIdsOf(workflow) == {workflow.nodes[i].node_id : i \in 1..Len(workflow.nodes)}

IsGate(workflow, node_id) ==
    GetNode(workflow, node_id) # <<>> /\ GetNode(workflow, node_id)[1].node_type = APPROVAL

\* the node ids on the next_node path from cur, up to and including the first gate;
\* n bounds the length, so a path that closes a cycle is cut
RECURSIVE NextPath(_, _, _)
NextPath(workflow, cur, n) ==
    IF n = 0 \/ cur = None \/ GetNode(workflow, cur) = <<>>
    THEN <<>>
    ELSE IF IsGate(workflow, cur)
         THEN <<cur>>
         ELSE <<cur>> \o NextPath(workflow, GetNode(workflow, cur)[1].next_node, n - 1)

\* the next_node path from cur ends at a gate
PathHitsGate(workflow, cur) ==
    LET path == NextPath(workflow, cur, Len(workflow.nodes) + 1)
    IN path # <<>> /\ IsGate(workflow, path[Len(path)])

\* the next_node path from cur ends, without a gate and without a cycle
PathEnds(workflow, cur) ==
    LET path == NextPath(workflow, cur, Len(workflow.nodes) + 1)
    IN Len(path) <= Len(workflow.nodes) /\ ~PathHitsGate(workflow, cur)

\* node ids reachable from the start node over next_node and on_error edges
RECURSIVE ReachFrom(_, _)
ReachFrom(workflow, S) ==
    LET T == S \cup {m \in NodeIdsOf(workflow) :
                        \E n \in S : GetNode(workflow, n) # <<>>
                                     /\ m \in {GetNode(workflow, n)[1].next_node,
                                               GetNode(workflow, n)[1].on_error}}
    IN IF T = S THEN S ELSE ReachFrom(workflow, T)

ReachableGates(workflow) ==
    {n \in ReachFrom(workflow, {workflow.start_node} \cap NodeIdsOf(workflow)) : IsGate(workflow, n)}

LogIds(node_executions) == [i \in 1..Len(node_executions) |-> node_executions[i].node_id]

NoFailure(node_executions) ==
    \A i \in 1..Len(node_executions) : node_executions[i].status # ERROR

\* the step is a call of approve_execution on execution e
IsApproveExecutionStep(e) ==
    /\ ret'.op = "approve_execution"
    /\ ret'.target = e
    /\ e \in 1..Len(executions)

-----------------------------------------------------------------------------
(* C3 *)

\* the execution came from execute and no approval call has touched it
FreshFromExecute(ex) == ex.approved_by = None /\ HasWorkflow(ex.workflow_id)

C3Case(ex) ==
    /\ FreshFromExecute(ex)
    /\ Cardinality(ReachableGates(workflows[ex.workflow_id])) = 1
    /\ PathHitsGate(workflows[ex.workflow_id], workflows[ex.workflow_id].start_node)
    /\ NoFailure(ex.node_executions)

\* C3: execute on a workflow with exactly one reachable approval node, the actions
\* before it succeeding, returns AWAITING_APPROVAL with pending_approval the gate's id
\* and a log that is exactly the path from the start node up to and including the gate.
C3_ExecutePausesAtGate ==
    \A e \in 1..Len(executions) :
        LET ex == executions[e]
        IN C3Case(ex) =>
              LET workflow == workflows[ex.workflow_id]
                  path == NextPath(workflow, workflow.start_node, Len(workflow.nodes) + 1)
              IN /\ ex.status = AWAITING_APPROVAL
                 /\ ex.pending_approval = path[Len(path)]
                 /\ LogIds(ex.node_executions) = path

C3_Witness ==
    \E e \in 1..Len(executions) :
        /\ C3Case(executions[e])
        /\ executions[e].status = AWAITING_APPROVAL
        /\ Len(executions[e].node_executions) >= 2

-----------------------------------------------------------------------------
(* C4 *)

\* the step approves paused execution e, no gate is left on its path and every
\* node the step runs succeeds
C4Case(e) ==
    /\ IsApproveExecutionStep(e)
    /\ ret'.approved
    /\ CanApproveExecution(executions, e)
    /\ HasWorkflow(executions[e].workflow_id)
    /\ IsGate(workflows[executions[e].workflow_id], executions[e].pending_approval)
    /\ PathEnds(workflows[executions[e].workflow_id],
                GetNode(workflows[executions[e].workflow_id],
                        executions[e].pending_approval)[1].next_node)
    /\ \A i \in (Len(executions[e].node_executions) + 1)..Len(executions'[e].node_executions) :
           executions'[e].node_executions[i].status # ERROR

\* C4: approving a paused execution whose remaining path has no gate and whose
\* remaining actions succeed appends one record per node of the path from the gate's
\* next node to the end, in order, and sets SUCCESS; [A, approval, B] has 2 records
\* at the pause and 3 after the approval.
C4_ApproveRunsRest ==
    [][\A e \in 1..Len(executions) :
          C4Case(e) =>
             LET ex == executions[e]
                 after == executions'[e]
                 workflow == workflows[ex.workflow_id]
                 gate == GetNode(workflow, ex.pending_approval)[1]
             IN /\ after.status = SUCCESS
                /\ LogIds(after.node_executions) =
                      LogIds(ex.node_executions)
                         \o NextPath(workflow, gate.next_node, Len(workflow.nodes) + 1)
                /\ ex.workflow_id = "linear-gate-workflow" =>
                      Len(ex.node_executions) = 2 /\ Len(after.node_executions) = 3
      ]_vars

C4_Witness ==
    /\ ret.op = "approve_execution"
    /\ ret.approved
    /\ ret.result = SUCCESS
    /\ executions[ret.target].workflow_id = "linear-gate-workflow"
    /\ Len(executions[ret.target].node_executions) = 3
    /\ NoFailure(executions[ret.target].node_executions)

-----------------------------------------------------------------------------
(* C6 *)

\* C6: rejecting a paused execution sets REJECTED and leaves its log and its
\* context as they were.
C6_RejectChangesOnlyStatus ==
    [][\A e \in 1..Len(executions) :
          (IsApproveExecutionStep(e) /\ ~ret'.approved /\ CanApproveExecution(executions, e)) =>
             /\ executions'[e].status = REJECTED
             /\ executions'[e].node_executions = executions[e].node_executions
             /\ executions'[e].context = executions[e].context
      ]_vars

C6_Witness ==
    /\ ret.op = "approve_execution"
    /\ ~ret.approved
    /\ ret.result = REJECTED
    /\ Len(executions[ret.target].node_executions) >= 2

-----------------------------------------------------------------------------
(* C7 *)

\* C7 as claimed: once approve_execution has been applied to an execution, every
\* later call on it fails and leaves the execution as it was.
C7_SecondCallAlwaysFails ==
    [][\A e \in 1..Len(executions) :
          (IsApproveExecutionStep(e) /\ executions[e].approved_by # None) =>
             ret'.result = None /\ executions'[e] = executions[e]
      ]_vars

\* C7 amended: once approve_execution has been applied to an execution and did not
\* pause it again at a further gate, every later call on it fails and leaves the
\* execution (status, log, context, pending_approval, approved_by) as it was.
C7_SecondCallFailsUnlessRepaused ==
    [][\A e \in 1..Len(executions) :
          (/\ IsApproveExecutionStep(e)
           /\ executions[e].approved_by # None
           /\ executions[e].status # AWAITING_APPROVAL) =>
             ret'.result = None /\ executions'[e] = executions[e]
      ]_vars

C7_Witness ==
    /\ ret.op = "approve_execution"
    /\ ret.result = None
    /\ ret.target \in 1..Len(executions)
    /\ executions[ret.target].approved_by # None
    /\ executions[ret.target].status \in {SUCCESS, REJECTED}

-----------------------------------------------------------------------------
(* C5 *)

\* the graph with every approval node replaced by a pass-through node
PassThrough(workflow) ==
    [workflow EXCEPT !.nodes =
        [i \in 1..Len(workflow.nodes) |->
            IF workflow.nodes[i].node_type = APPROVAL
            THEN [workflow.nodes[i] EXCEPT !.node_type = WAIT]
            ELSE workflow.nodes[i]]]

\* what the environment did at each visit of a log
OracleOf(node_executions) ==
    [i \in 1..Len(node_executions) |->
        IF node_executions[i].status = ERROR
        THEN "raise"
        ELSE IF \E k \in 1..Len(node_executions[i].tool_calls) :
                   node_executions[i].tool_calls[k] = ERROR
             THEN "fail" ELSE "ok"]

\* execute on the pass-through graph, under the outcomes the execution met
Reference(ex) ==
    ExecuteLoop(PassThrough(workflows[ex.workflow_id]),
                NewExecution(ex.workflow_id, ex.input_params),
                workflows[ex.workflow_id].start_node,
                OracleOf(ex.node_executions), 0)

\* C5: an execution that went through execute and approvals to a terminal status
\* has the status and the node sequence of execute on the graph whose approval
\* nodes are pass-through nodes, under the same action outcomes.
C5_ApprovedRunEqualsPassThrough ==
    \A e \in 1..Len(executions) :
        LET ex == executions[e]
        IN (/\ HasWorkflow(ex.workflow_id)
            /\ ex.approved_by # None
            /\ ex.status \in {SUCCESS, ERROR}
            /\ Reference(ex).returned) =>
              /\ ex.status = Reference(ex).ex.status
              /\ LogIds(ex.node_executions) = LogIds(Reference(ex).ex.node_executions)

-----------------------------------------------------------------------------
(* C9 *)

\* C9: after a failed action node the next node run is its on_error node, and its
\* output is not merged; without on_error the execution is ERROR and the failed
\* record is the last one.
C9_FailureRouting ==
    \A e \in 1..Len(executions) :
        LET ex == executions[e]
            log == ex.node_executions
        IN HasWorkflow(ex.workflow_id) =>
             \A i \in 1..Len(log) :
                (log[i].node_type = SKILL /\ log[i].status = ERROR) =>
                   LET node == GetNode(workflows[ex.workflow_id], log[i].node_id)[1]
                   IN IF node.on_error # None
                      THEN i < Len(log) =>
                              /\ log[i + 1].node_id = node.on_error
                              /\ log[i + 1].input_data = log[i].input_data
                      ELSE i = Len(log) /\ ex.status = ERROR

-----------------------------------------------------------------------------
(* C8 *)

NoApprovalNode(workflow_id) ==
    /\ HasWorkflow(workflow_id)
    /\ \A i \in 1..Len(workflows[workflow_id].nodes) :
          workflows[workflow_id].nodes[i].node_type # APPROVAL

\* C8: execute on a workflow without approval nodes, back edges included, leaves
\* its loop and returns SUCCESS or ERROR with no pending approval.
C8_ExecuteTerminates ==
    (loop.go = "next" /\ NoApprovalNode(loop.workflow_id))
        ~> (/\ loop.go = "returned"
            /\ loop.ex.status \in {SUCCESS, ERROR}
            /\ loop.ex.pending_approval = None)

-----------------------------------------------------------------------------
(* Claims about SubAgentManager, checked under SpecTask *)

\* the workflow ids of the executions a task holds, in order
WorkflowIdsOf(task) ==
    [i \in 1..Len(task.workflow_executions) |->
        executions[task.workflow_executions[i]].workflow_id]

\* C1: a task holds at most one execution per planned workflow: approve_task continues
\* the paused execution and starts only the planned workflows after it, so no two
\* executions of a task are of the same planned workflow and there are never more
\* executions than planned workflows.
C1_OneExecutionPerPlannedWorkflow ==
    \A t \in 1..Len(tasks) :
        tasks[t].stored =>
            /\ Len(tasks[t].workflow_executions) <= Len(tasks[t].planned_workflows)
            /\ \A i, j \in 1..Len(tasks[t].workflow_executions) :
                  WorkflowIdsOf(tasks[t])[i] = WorkflowIdsOf(tasks[t])[j] => i = j

\* C10: a task one of whose executions ended with status ERROR has status ERROR and an
\* error message; it is never SUCCESS.
C10_ErrorExecutionFailsTask ==
    \A t \in 1..Len(tasks) :
        (/\ tasks[t].stored
         /\ \E i \in 1..Len(tasks[t].workflow_executions) :
               executions[tasks[t].workflow_executions[i]].status = ERROR)
        => (tasks[t].status = ERROR /\ tasks[t].error # None)

-----------------------------------------------------------------------------
(* Claims about MasterAgent, checked under Spec *)

\* the ids of the executions held by the tasks of a session
SessionExecutionIds(session, tsks) ==
    UNION {{tsks[session.agent_tasks[i]].workflow_executions[j] :
               j \in 1..Len(tsks[session.agent_tasks[i]].workflow_executions)} :
           i \in 1..Len(session.agent_tasks)}

\* the approval nodes of a workflow id; none if the workflow is not registered
GatesOf(workflow_id) ==
    IF HasWorkflow(workflow_id)
    THEN {n \in NodeIdsOf(workflows[workflow_id]) : IsGate(workflows[workflow_id], n)}
    ELSE {}

\* the approval gates of the planned workflows of a session: task, planned workflow, node
SessionGates(session, tsks) ==
    UNION {UNION {{<<i, j, n>> :
                      n \in GatesOf(tsks[session.agent_tasks[i]].planned_workflows[j])} :
                  j \in 1..Len(tsks[session.agent_tasks[i]].planned_workflows)} :
           i \in 1..Len(session.agent_tasks)}

\* the gate visits of the executions of a session that an approval has marked approved
SessionApprovedGates(session, tsks, execs) ==
    {v \in UNION {{<<e, k>> : k \in 1..Len(execs[e].node_executions)} :
                  e \in SessionExecutionIds(session, tsks)} :
        execs[v[1]].node_executions[v[2]].status = APPROVED}

\* no action of an execution of the session failed
SessionNoFailure(session, tsks, execs) ==
    \A e \in SessionExecutionIds(session, tsks) :
        /\ execs[e].status # ERROR
        /\ \A k \in 1..Len(execs[e].node_executions) :
              execs[e].node_executions[k].status # ERROR

\* C2: approvals make a waiting session finish: after a call approve_session(approved
\* = true) on a session that is AWAITING_APPROVAL, if no action failed and as many
\* gates have been approved as the planned workflows of the session have, the session
\* is SUCCESS with empty pending_approvals.
C2_ApprovalsReachSuccess ==
    [][\A s \in 1..Len(sessions) :
          (/\ ret'.op = "approve_session" /\ ret'.target = s /\ ret'.approved
           /\ sessions[s].stored /\ sessions[s].status = AWAITING_APPROVAL
           /\ SessionNoFailure(sessions'[s], tasks', executions')
           /\ Cardinality(SessionApprovedGates(sessions'[s], tasks', executions'))
                 >= Cardinality(SessionGates(sessions'[s], tasks')))
          => (sessions'[s].status = SUCCESS /\ sessions'[s].pending_approvals = <<>>)]_vars

-----------------------------------------------------------------------------
(* C11 *)

\* the task ended in error: it has status ERROR, or one of the workflow executions it
\* ran ended ERROR (the case in which C10 requires status ERROR)
TaskEndedInError(task, execs) ==
    \/ task.status = ERROR
    \/ \E i \in 1..Len(task.workflow_executions) :
          execs[task.workflow_executions[i]].status = ERROR

-----------------------------------------------------------------------------
(* C12 *)

\* C12: an action one of whose adapter calls returned a failure result is recorded as
\* failed: the node that ran it has status ERROR; it is never recorded SUCCESS.
C12_AdapterFailureFailsAction ==
    \A e \in 1..Len(executions) :
        \A k \in 1..Len(executions[e].node_executions) :
            (\E c \in 1..Len(executions[e].node_executions[k].tool_calls) :
                executions[e].node_executions[k].tool_calls[c] = ERROR)
            => executions[e].node_executions[k].status = ERROR

-----------------------------------------------------------------------------
(* C13 *)

\* the node id at which the run of a finished execution stopped: the start node if no
\* node ran, otherwise the successor of the last node run
StoppedAt(ex) ==
    IF ex.node_executions = <<>>
    THEN workflows[ex.workflow_id].start_node
    ELSE LET last == ex.node_executions[Len(ex.node_executions)]
             node == GetNode(workflows[ex.workflow_id], last.node_id)[1]
         IN IF last.status = ERROR /\ node.on_error # None
            THEN node.on_error ELSE node.next_node

\* C13: an execution never ends SUCCESS by stopping at a node id that is not a node of
\* its workflow (a missing start node, next node or on-error node); such a run is ERROR.
C13_MissingNodeIsError ==
    \A e \in 1..Len(executions) :
        (/\ HasWorkflow(executions[e].workflow_id)
         /\ executions[e].status = SUCCESS
         /\ StoppedAt(executions[e]) # None)
        => GetNode(workflows[executions[e].workflow_id], StoppedAt(executions[e])) # <<>>

-----------------------------------------------------------------------------
(* C14 *)

\* the executions of the tasks a session holds in pending_approvals
PendingExecutionIds(session_id) ==
    IF HasSession(sessions, session_id)
    THEN UNION {{tasks[sessions[session_id].pending_approvals[i]].workflow_executions[j] :
                    j \in 1..Len(tasks[sessions[session_id].pending_approvals[i]].workflow_executions)} :
                i \in 1..Len(sessions[session_id].pending_approvals)}
    ELSE {}

\* the step makes an approve_execution call for execution e: directly, through
\* approve_task on its task, or through approve_session on a session that waits for
\* its task
IsApprovalOf(e) ==
    \/ IsApproveExecutionStep(e)
    \/ /\ ret'.op = "approve_task"
       /\ HasTask(tasks, ret'.target)
       /\ \E j \in 1..Len(tasks[ret'.target].workflow_executions) :
             tasks[ret'.target].workflow_executions[j] = e
    \/ /\ ret'.op = "approve_session"
       /\ e \in PendingExecutionIds(ret'.target)

\* C14: while an execution has status AWAITING_APPROVAL, every step that is not an
\* approval call for its id (execute of another workflow, process, approvals of other
\* executions or sessions) leaves its node_executions, context, current node and
\* status as they are: no node of it is executed.
C14_PausedExecutionUnchanged ==
    [][\A e \in 1..Len(executions) :
          (executions[e].status = AWAITING_APPROVAL /\ ~IsApprovalOf(e))
          => /\ e \in 1..Len(executions')
             /\ executions'[e].node_executions = executions[e].node_executions
             /\ executions'[e].context = executions[e].context
             /\ executions'[e].current_node = executions[e].current_node
             /\ executions'[e].status = AWAITING_APPROVAL]_vars

\* an execution is still paused after a later execute or process made another one
C14_Witness ==
    \E e \in 1..Len(executions) :
       /\ executions[e].status = AWAITING_APPROVAL
       /\ e < Len(executions)
       /\ ret.op \in {"execute", "process"}
       /\ ret.target # e

-----------------------------------------------------------------------------
(* C15 *)

\* the step is an approval call whose target is unknown or does not wait for approval
IsRefusedApproval ==
    \/ /\ ret'.op = "approve_execution"
       /\ ~(/\ ret'.target \in 1..Len(executions)
            /\ executions[ret'.target].stored
            /\ executions[ret'.target].status = AWAITING_APPROVAL)
    \/ /\ ret'.op = "approve_task"
       /\ ~(/\ ret'.target \in 1..Len(tasks)
            /\ tasks[ret'.target].stored
            /\ tasks[ret'.target].status = AWAITING_APPROVAL)
    \/ /\ ret'.op = "approve_session"
       /\ ~(/\ ret'.target \in 1..Len(sessions)
            /\ sessions[ret'.target].stored
            /\ sessions[ret'.target].status = AWAITING_APPROVAL)

\* C15: an approval call (approve_execution, approve_task, approve_session) on a target
\* that is unknown or not AWAITING_APPROVAL returns no object and changes nothing in the
\* registries of executions, tasks and sessions.
C15_RefusedApprovalChangesNothing ==
    [][IsRefusedApproval
       => /\ ret'.result = None
          /\ UNCHANGED <<executions, tasks, sessions>>]_vars

\* a second approve_session on a session that was already decided returned nothing
C15_Witness ==
    /\ ret.op = "approve_session"
    /\ ret.result = None
    /\ HasSession(sessions, ret.target)
    /\ sessions[ret.target].status \in {SUCCESS, REJECTED}
    /\ \E t \in 1..Len(tasks) : tasks[t].status \in {SUCCESS, REJECTED}
    /\ \E e \in 1..Len(executions) : executions[e].status \in {SUCCESS, REJECTED}

-----------------------------------------------------------------------------
(* C16 *)

\* C16: execute with a workflow id that is not registered returns an execution with
\* status ERROR, a not-found error message and an empty node_executions list; no node
\* and no action has run for it (its context and output are empty) and it is the
\* result of the call.
C16_UnknownWorkflowIsError ==
    \A e \in 1..Len(executions) :
        ~HasWorkflow(executions[e].workflow_id)
        => /\ executions[e].status = ERROR
           /\ executions[e].error = "not found"
           /\ executions[e].node_executions = <<>>
           /\ executions[e].current_node = None
           /\ executions[e].context = EmptyDict
           /\ executions[e].output_result = <<>>
           /\ (ret.op = "execute" /\ ret.target = e) => ret.result = ERROR

\* execute was just called with an id that is not registered
C16_Witness ==
    /\ ret.op = "execute"
    /\ ret.target \in 1..Len(executions)
    /\ executions[ret.target].workflow_id = "no-such-workflow"

-----------------------------------------------------------------------------
(* C17 *)

\* the tasks of a session that wait for approval, in plan order
AwaitingTasks(session, tsks) ==
    SelectSeq(session.agent_tasks, LAMBDA t : tsks[t].status = AWAITING_APPROVAL)

NoDuplicates(seq) == \A i, j \in 1..Len(seq) : seq[i] = seq[j] => i = j

-----------------------------------------------------------------------------
(* C18 *)

\* the statuses in which a task or an execution has ended
TerminalStatuses == {SUCCESS, ERROR, REJECTED}

\* C18: in every reachable state, a session with status SUCCESS has every one of its
\* agent tasks in a terminal status, none of them AWAITING_APPROVAL, and none of their
\* workflow executions paused.
C18_SuccessSessionHasNoPausedTask ==
    \A s \in 1..Len(sessions) :
        (sessions[s].stored /\ sessions[s].status = SUCCESS)
        => /\ \A i \in 1..Len(sessions[s].agent_tasks) :
                 tasks[sessions[s].agent_tasks[i]].status \in TerminalStatuses
           /\ \A e \in SessionExecutionIds(sessions[s], tasks) :
                 executions[e].status # AWAITING_APPROVAL

\* a session that ran tasks became SUCCESS through approve_session
C18_Witness ==
    \E s \in 1..Len(sessions) :
       /\ ret = Ret("approve_session", s, TRUE, SUCCESS)
       /\ sessions[s].status = SUCCESS
       /\ Len(sessions[s].agent_tasks) >= 1
       /\ SessionExecutionIds(sessions[s], tasks) # {}

-----------------------------------------------------------------------------
(* C19 *)

\* the executions of a task
TaskExecutionIds(task) ==
    {task.workflow_executions[j] : j \in 1..Len(task.workflow_executions)}

\* C19: approve_session(approved = false) on a session that is AWAITING_APPROVAL sets
\* the session to REJECTED whatever the statuses of its other tasks, sets every task
\* that was in pending_approvals to REJECTED and every paused execution of those tasks
\* to REJECTED, empties pending_approvals, and runs no workflow node: no execution is
\* made and no execution's log or context changes.
C19_RejectedSession ==
    [][\A s \in 1..Len(sessions) :
          (/\ ret'.op = "approve_session" /\ ret'.target = s /\ ~ret'.approved
           /\ sessions[s].stored /\ sessions[s].status = AWAITING_APPROVAL)
          => /\ sessions'[s].status = REJECTED
             /\ sessions'[s].pending_approvals = <<>>
             /\ \A i \in 1..Len(sessions[s].pending_approvals) :
                   /\ tasks'[sessions[s].pending_approvals[i]].status = REJECTED
                   /\ \A e \in TaskExecutionIds(tasks[sessions[s].pending_approvals[i]]) :
                         executions[e].status = AWAITING_APPROVAL
                         => executions'[e].status = REJECTED
             /\ Len(executions') = Len(executions)
             /\ \A e \in 1..Len(executions) :
                   /\ executions'[e].node_executions = executions[e].node_executions
                   /\ executions'[e].context = executions[e].context
             /\ \A t \in 1..Len(tasks) :
                   tasks'[t].workflow_executions = tasks[t].workflow_executions]_vars

\* a session of two tasks was rejected: the first task stays SUCCESS, the second and its
\* paused execution are REJECTED
C19_Witness ==
    \E s \in 1..Len(sessions) :
       /\ ret = Ret("approve_session", s, FALSE, REJECTED)
       /\ Len(sessions[s].agent_tasks) = 2
       /\ tasks[sessions[s].agent_tasks[1]].status = SUCCESS
       /\ tasks[sessions[s].agent_tasks[2]].status = REJECTED
       /\ \E e \in TaskExecutionIds(tasks[sessions[s].agent_tasks[2]]) :
             executions[e].status = REJECTED

-----------------------------------------------------------------------------
(* C20 *)

\* the context of a task after the outputs of its executions i..n are merged into ctx
RECURSIVE MergedOutputs(_, _, _, _, _)
MergedOutputs(ctx, execs, ids, i, n) ==
    IF i > n THEN ctx
    ELSE MergedOutputs(IF execs[ids[i]].output_result \notin {<<>>, <<EmptyDict>>}
                       THEN DictUpdate(ctx, execs[ids[i]].output_result[1])
                       ELSE ctx,
                       execs, ids, i + 1, n)

\* the step is a call on task t that ran execute_task: execute_task itself, or an
\* approving approve_task on a task that waited
RanExecuteTask(t) ==
    /\ HasTask(tasks, t)
    /\ ret'.target = t
    /\ \/ ret'.op = "execute_task"
       \/ /\ ret'.op = "approve_task"
          /\ ret'.approved
          /\ tasks[t].status = AWAITING_APPROVAL

\* C20: when a workflow run by execute_task returns AWAITING_APPROVAL, the task is
\* AWAITING_APPROVAL at the end of the same step, that execution is the last one of the
\* task (no planned workflow after it was started) and the task context holds the
\* outputs of the workflows run before it only, not the context of the paused one;
\* and until approve_task is called on the task, no step gives it another execution.
C20_PauseStopsTask ==
    [][\A t \in 1..Len(tasks) :
          /\ RanExecuteTask(t) =>
                \A k \in (Len(tasks[t].workflow_executions) + 1)
                           ..Len(tasks'[t].workflow_executions) :
                   executions'[tasks'[t].workflow_executions[k]].status = AWAITING_APPROVAL
                   => /\ tasks'[t].status = AWAITING_APPROVAL
                      /\ k = Len(tasks'[t].workflow_executions)
                      /\ tasks'[t].context =
                            MergedOutputs(tasks[t].context, executions',
                                          tasks'[t].workflow_executions,
                                          Len(tasks[t].workflow_executions) + 1, k - 1)
          /\ (/\ tasks[t].stored
              /\ tasks[t].status = AWAITING_APPROVAL
              /\ ~(ret'.op = "approve_task" /\ ret'.target = t))
             => /\ tasks'[t].workflow_executions = tasks[t].workflow_executions
                /\ tasks'[t].status = AWAITING_APPROVAL]_vars

\* execute_task ran one workflow to its end, paused at the second and left the third
C20_Witness ==
    \E t \in 1..Len(tasks) :
       /\ ret = Ret("execute_task", t, FALSE, AWAITING_APPROVAL)
       /\ Len(tasks[t].planned_workflows) = 3
       /\ Len(tasks[t].workflow_executions) = 2
       /\ executions[tasks[t].workflow_executions[1]].status = SUCCESS
       /\ executions[tasks[t].workflow_executions[2]].status = AWAITING_APPROVAL
       /\ tasks[t].context # EmptyDict
       /\ tasks[t].context # executions[tasks[t].workflow_executions[2]].context

-----------------------------------------------------------------------------
(* C21 *)

-----------------------------------------------------------------------------
(* C22 *)

\* C22: in every reachable state each task has at most one execution with a status
\* that is not terminal (RUNNING or AWAITING_APPROVAL): two paused executions never
\* coexist in one task, also for workflows with more than one approval gate and after
\* any number of approvals.
C22_OneActiveExecutionPerTask ==
    \A t \in 1..Len(tasks) :
        tasks[t].stored
        => Cardinality({j \in 1..Len(tasks[t].workflow_executions) :
                           executions[tasks[t].workflow_executions[j]].status
                              \in {RUNNING, AWAITING_APPROVAL}}) <= 1

-----------------------------------------------------------------------------
(* C23 *)

\* C23: when a planned workflow of a task has reached SUCCESS, directly or after an
\* approval, and the step then starts an execution of a workflow planned after it,
\* the input context of that execution holds every key of the finished workflow's
\* output: the output was merged into the task context before the next workflow
\* started.  An execution that existed before the step and is SUCCESS after it was
\* finished by the step's approvals, which come before any workflow is started.
C23_OutputReachesNextWorkflow ==
    [][\A t \in 1..Len(tasks) :
          (tasks[t].stored /\ ret'.target = t /\ ret'.op \in {"execute_task", "approve_task"})
          => \A j, k \in 1..Len(tasks'[t].workflow_executions) :
                LET ej == tasks'[t].workflow_executions[j]
                    ek == tasks'[t].workflow_executions[k]
                    Pos(wf) == {i \in 1..Len(tasks[t].planned_workflows) :
                                   tasks[t].planned_workflows[i] = wf}
                IN (/\ j < k
                    /\ ek > Len(executions)
                    /\ executions'[ej].status = SUCCESS
                    /\ executions'[ej].output_result # <<>>
                    /\ \E pj \in Pos(executions'[ej].workflow_id),
                          pk \in Pos(executions'[ek].workflow_id) : pj < pk)
                   => \A key \in DOMAIN executions'[ej].output_result[1] :
                         key \in DOMAIN executions'[ek].input_params]_vars

-----------------------------------------------------------------------------
(* C24 *)

\* the branch a CONDITION node names for a context: true_branch when the key that
\* condition_expr names is in the context, false_branch otherwise
BranchOf(node, context) ==
    IF node.condition_expr \in DOMAIN context THEN node.true_branch ELSE node.false_branch

\* C24: a conditional node evaluates its condition expression against the current
\* context; a record is appended for the conditional node itself, and the node run
\* next is its true-branch when the condition holds and its false-branch otherwise.
C24_ConditionFollowsBranch ==
    \A e \in 1..Len(executions) :
        (HasWorkflow(executions[e].workflow_id) /\ executions[e].status = SUCCESS)
        => \A k \in 1..Len(executions[e].node_executions) :
              executions[e].node_executions[k].node_type = CONDITION
              => LET node == GetNode(workflows[executions[e].workflow_id],
                                     executions[e].node_executions[k].node_id)[1]
                 IN /\ k < Len(executions[e].node_executions)
                    /\ executions[e].node_executions[k + 1].node_id
                          = BranchOf(node, executions[e].node_executions[k].input_data)

-----------------------------------------------------------------------------
(* C25 *)

\* C25: for every input text, preview reports requires_approval = true exactly when
\* process on the same input ends AWAITING_APPROVAL: the approval points of the plan
\* coincide with the approval gates that the planned tasks run into.
C25_PreviewAgreesWithProcess ==
    \A s \in 1..Len(sessions) :
        ret = Ret("process", s, FALSE, sessions[s].status)
        => (MasterPreview(Now, sessions[s].user_input).preview.estimated_impact.requires_approval
              <=> sessions[s].status = AWAITING_APPROVAL)

-----------------------------------------------------------------------------
(* C26 *)

\* C26: preview(text) executes nothing: it creates no session, no task and no workflow
\* execution (whose records alone hold the action executions and the adapter calls), so
\* the three registries are the same after it as before.
C26_PreviewChangesNothing ==
    [][ret'.op = "preview"
         => /\ executions' = executions
            /\ tasks' = tasks
            /\ sessions' = sessions]_vars

\* a preview of a text that plans two agents has returned, next to an earlier session
C26_Witness ==
    /\ ret.op = "preview"
    /\ ret.result = "clearance_sale"
    /\ ret.approved
    /\ \E s \in 1..Len(sessions) : sessions[s].stored

-----------------------------------------------------------------------------
(* C27 *)

\* C27: the node_executions list of a workflow execution only grows by appending at the
\* end: across every step the earlier list is a prefix of the later one, and the only
\* change ever made to an existing record is marking the record of the paused approval
\* node (the last record of an execution that waits) as resolved.
C27_NodeExecutionsAppendOnly ==
    [][\A e \in 1..Len(executions) :
          LET old == executions[e].node_executions
              new == executions'[e].node_executions
          IN /\ e <= Len(executions')
             /\ Len(new) >= Len(old)
             /\ \A k \in 1..Len(old) :
                   \/ new[k] = old[k]
                   \/ /\ k = Len(old)
                      /\ executions[e].status = AWAITING_APPROVAL
                      /\ old[k].node_id = executions[e].pending_approval
                      /\ new[k] = [old[k] EXCEPT
                                      !.status = APPROVED,
                                      !.output_data =
                                          DictUpdate(@, ("approved_by" :>
                                                           executions'[e].approved_by))]]_vars

-----------------------------------------------------------------------------
(* C28 *)

\* C28: an agent whose capabilities match no keyword of the instruction, or match only
\* capabilities without workflows, yields a task with an empty plan, and execute_task
\* on a task with an empty plan ends with status SUCCESS, no workflow execution and no
\* error.
C28_EmptyPlanSucceeds ==
    \A t \in 1..Len(tasks) :
        tasks[t].stored
        => LET capabilities == agents[tasks[t].agent_id].capabilities
               Matched(i) == \E kw \in capabilities[i].keywords :
                                Occurs(kw, tasks[t].instruction)
           IN /\ (\A i \in 1..Len(capabilities) :
                     Matched(i) => capabilities[i].workflows = <<>>)
                 => tasks[t].planned_workflows = <<>>
              /\ (tasks[t].planned_workflows = <<>> /\ tasks[t].status # PENDING)
                 => /\ tasks[t].status = SUCCESS
                    /\ tasks[t].workflow_executions = <<>>
                    /\ tasks[t].error = None

\* execute_task has returned on a task whose only matching capability has no workflow
C28_Witness ==
    \E t \in 1..Len(tasks) :
        /\ ret = Ret("execute_task", t, FALSE, SUCCESS)
        /\ tasks[t].agent_id = "supply-chain-agent"
        /\ tasks[t].planned_workflows = <<>>
        /\ tasks[t].status = SUCCESS

-----------------------------------------------------------------------------
(* C29 *)

\* C29: executing an action id that is not in the action catalog returns an execution
\* with status ERROR and a not-found message, without raising, and makes no adapter
\* call: the record of the node that names the id holds the error and no tool call.
C29_UnknownActionIsNotFound ==
    \A e \in 1..Len(executions) :
        HasWorkflow(executions[e].workflow_id)
        => \A k \in 1..Len(executions[e].node_executions) :
              LET record == executions[e].node_executions[k]
                  node == GetNode(workflows[executions[e].workflow_id], record.node_id)[1]
              IN (record.node_type = SKILL /\ node.skill_id \notin SkillIds)
                 => /\ record.skill_execution # <<>>
                    /\ record.skill_execution[1].status = ERROR
                    /\ record.skill_execution[1].error = "not found"
                    /\ record.skill_execution[1].tool_calls = <<>>
                    /\ record.tool_calls = <<>>

\* execute has returned from a workflow whose first node names an unknown action
C29_Witness ==
    \E e \in 1..Len(executions) :
        /\ ret = Ret("execute", e, FALSE, ERROR)
        /\ executions[e].workflow_id = "unknown-skill-workflow"
        /\ Len(executions[e].node_executions) = 1
        /\ executions[e].node_executions[1].skill_execution[1].error = "not found"

-----------------------------------------------------------------------------
(* C30 *)

\* C30: terminal statuses are absorbing at all three levels: once a session, a task or
\* a workflow execution has status SUCCESS, REJECTED or ERROR, no process, execute or
\* approve operation, on it or on any other unit, changes its status again.
C30_TerminalIsAbsorbing ==
    [][/\ \A e \in 1..Len(executions) :
             (executions[e].stored /\ executions[e].status \in {SUCCESS, REJECTED, ERROR})
             => /\ e <= Len(executions')
                /\ executions'[e].status = executions[e].status
       /\ \A t \in 1..Len(tasks) :
             (tasks[t].stored /\ tasks[t].status \in {SUCCESS, REJECTED, ERROR})
             => /\ t <= Len(tasks')
                /\ tasks'[t].status = tasks[t].status
       /\ \A s \in 1..Len(sessions) :
             (sessions[s].stored /\ sessions[s].status \in {SUCCESS, REJECTED, ERROR})
             => /\ s <= Len(sessions')
                /\ sessions'[s].status = sessions[s].status]_vars

\* a session, its task and the task's execution are all terminal, and an approval of
\* the session has just been refused
C30_Witness ==
    \E s \in 1..Len(sessions) :
        /\ ret = Ret("approve_session", s, TRUE, None)
        /\ sessions[s].status = REJECTED
        /\ \A i \in 1..Len(sessions[s].agent_tasks) :
              /\ tasks[sessions[s].agent_tasks[i]].status = REJECTED
              /\ \E e \in TaskExecutionIds(tasks[sessions[s].agent_tasks[i]]) :
                    executions[e].status = REJECTED

-----------------------------------------------------------------------------
(* C31 *)

\* C31: sessions are independent: an operation performed for one session (process,
\* approve_session, or the approval of one of its workflow executions) leaves the
\* status, the pending approvals, the tasks with their contexts, the workflow
\* executions and the node logs of every other session unchanged.
C31_SessionsAreIndependent ==
    [][\A a \in 1..Len(sessions'), b \in 1..Len(sessions) :
          (/\ a # b
           /\ \/ ret'.op \in {"process", "approve_session"} /\ ret'.target = a
              \/ /\ ret'.op = "approve_execution"
                 /\ a <= Len(sessions)
                 /\ ret'.target \in SessionExecutionIds(sessions[a], tasks))
          => /\ sessions'[b] = sessions[b]
             /\ \A i \in 1..Len(sessions[b].agent_tasks) :
                   tasks'[sessions[b].agent_tasks[i]] = tasks[sessions[b].agent_tasks[i]]
             /\ \A e \in SessionExecutionIds(sessions[b], tasks) :
                   executions'[e] = executions[e]]_vars

\* a session has been approved and has run on while another session waits
C31_Witness ==
    \E a, b \in 1..Len(sessions) :
        /\ a # b
        /\ ret = Ret("approve_session", a, TRUE, sessions[a].status)
        /\ sessions[b].status = AWAITING_APPROVAL
        /\ sessions[b].pending_approvals # <<>>
        /\ \E e \in SessionExecutionIds(sessions[a], tasks) : executions[e].status = SUCCESS

-----------------------------------------------------------------------------
(* C32 *)

\* C32: every id issued differs from every id issued before it, so storing a new unit
\* in its registry never overwrites an entry: no two workflow executions carry the same
\* id, and an execution that was stored is still found under its id.
C32_IdsAreUnique ==
    /\ \A i, j \in 1..Len(executions) :
          i # j => executions[i].execution_id # executions[j].execution_id
    /\ \A i \in 1..Len(executions) : executions[i].stored

-----------------------------------------------------------------------------
(* C33 *)

\* C33: in every reachable state of a workflow execution, pending_approval is non-empty
\* if and only if the status is AWAITING_APPROVAL, and when non-empty it is the node id
\* of the last record of node_executions, an approval node whose record has status
\* AWAITING_APPROVAL; in particular pending_approval is empty after a rejection.
C33_PendingIffAwaiting ==
    \A e \in 1..Len(executions) :
        executions[e].stored
        => LET ex == executions[e]
               n == Len(ex.node_executions)
           IN /\ (ex.pending_approval # None) <=> (ex.status = AWAITING_APPROVAL)
              /\ ex.pending_approval # None
                 => /\ n > 0
                    /\ ex.node_executions[n].node_id = ex.pending_approval
                    /\ ex.node_executions[n].node_type = APPROVAL
                    /\ ex.node_executions[n].status = AWAITING_APPROVAL

-----------------------------------------------------------------------------
(* C34 *)

\* C34: under any interleaving of process, approve_session and direct approve_execution
\* calls, a task has status AWAITING_APPROVAL if and only if at least one of its
\* workflow executions has status AWAITING_APPROVAL: an approval given at the workflow
\* level never leaves the task parked with nothing paused underneath.
C34_TaskWaitsIffExecutionWaits ==
    \A t \in 1..Len(tasks) :
        tasks[t].stored
        => ((tasks[t].status = AWAITING_APPROVAL)
              <=> \E j \in 1..Len(tasks[t].workflow_executions) :
                     executions[tasks[t].workflow_executions[j]].status = AWAITING_APPROVAL)

-----------------------------------------------------------------------------
(* C35 *)

\* C35: if a session ends REJECTED, then in every workflow execution of its rejected
\* tasks no node after the approval gate has been executed, under any interleaving of
\* session-level and workflow-level approval calls: no record follows the record of an
\* approval node, and none of these executions ran to SUCCESS past the gate.
C35_RejectedSessionRanNothingPastGate ==
    \A s \in 1..Len(sessions) :
        (sessions[s].stored /\ sessions[s].status = REJECTED)
        => \A i \in 1..Len(sessions[s].agent_tasks) :
              tasks[sessions[s].agent_tasks[i]].status = REJECTED
              => \A e \in TaskExecutionIds(tasks[sessions[s].agent_tasks[i]]) :
                    \A k \in 1..Len(executions[e].node_executions) :
                       executions[e].node_executions[k].node_type = APPROVAL
                       => /\ k = Len(executions[e].node_executions)
                          /\ executions[e].status # SUCCESS

-----------------------------------------------------------------------------
(* C36 *)

\* C36: for a workflow with two or more approval gates, each approve_execution with
\* approved = true runs exactly the nodes up to the next gate and pauses again with
\* status AWAITING_APPROVAL and pending_approval equal to that gate's id; one approval is
\* consumed per gate, and SUCCESS is reached only by the approval of the last gate.
C36_OneApprovalPerGate ==
    [][\A e \in 1..Len(executions) :
          (/\ ret'.op = "approve_execution" /\ ret'.target = e /\ ret'.approved
           /\ executions[e].stored
           /\ executions[e].status = AWAITING_APPROVAL
           /\ Cardinality(GatesOf(executions[e].workflow_id)) >= 2
           /\ IsGate(workflows[executions[e].workflow_id], executions[e].pending_approval))
          => LET workflow == workflows[executions[e].workflow_id]
                 gate == GetNode(workflow, executions[e].pending_approval)[1]
                 path == NextPath(workflow, gate.next_node, Len(workflow.nodes) + 1)
                 old == executions[e].node_executions
                 new == executions'[e].node_executions
             IN /\ Len(new) = Len(old) + Len(path)
                /\ \A k \in 1..Len(path) : new[Len(old) + k].node_id = path[k]
                /\ IF path # <<>> /\ IsGate(workflow, path[Len(path)])
                   THEN /\ executions'[e].status = AWAITING_APPROVAL
                        /\ executions'[e].pending_approval = path[Len(path)]
                   ELSE /\ executions'[e].status = SUCCESS
                        /\ executions'[e].pending_approval = None]_vars

\* the second gate of a workflow with two gates has just been approved
C36_Witness ==
    \E e \in 1..Len(executions) :
        /\ ret = Ret("approve_execution", e, TRUE, SUCCESS)
        /\ executions[e].workflow_id = "two-gates-workflow"
        /\ [k \in 1..Len(executions[e].node_executions) |->
               executions[e].node_executions[k].node_id] = <<"G1", "B", "G2", "C">>
        /\ executions[e].node_executions[3].status = APPROVED

-----------------------------------------------------------------------------
(* C37 *)

\* C37: in every workflow execution whose status is terminal (SUCCESS, ERROR or
\* REJECTED), every node record has a resolved status: no record is left RUNNING or
\* AWAITING_APPROVAL, whatever the node type, and also after a rejection.
C37_TerminalHasResolvedRecords ==
    \A e \in 1..Len(executions) :
        (executions[e].stored /\ executions[e].status \in {SUCCESS, ERROR, REJECTED})
        => \A k \in 1..Len(executions[e].node_executions) :
              executions[e].node_executions[k].status \notin {RUNNING, AWAITING_APPROVAL}

-----------------------------------------------------------------------------
(* C38 *)

\* C38: when approve_execution is applied with approved = true, the record marked
\* APPROVED is the record of the paused visit, the last record of the log, and no
\* earlier record is modified, also when the same approval node was visited and
\* approved before in the same execution.
C38_ApprovalMarksPausedVisit ==
    [][\A e \in 1..Len(executions) :
          (/\ ret'.op = "approve_execution" /\ ret'.target = e /\ ret'.approved
           /\ executions[e].stored
           /\ executions[e].status = AWAITING_APPROVAL
           /\ IsGate(workflows[executions[e].workflow_id], executions[e].pending_approval))
          => LET n == Len(executions[e].node_executions)
             IN /\ executions'[e].node_executions[n].status = APPROVED
                /\ "approved_by" \in DOMAIN executions'[e].node_executions[n].output_data
                /\ \A k \in 1..(n - 1) :
                      executions'[e].node_executions[k] = executions[e].node_executions[k]]_vars

-----------------------------------------------------------------------------
(* C39 *)

\* C39: process runs every task of the plan exactly once, in plan order, before it
\* returns, even when an earlier task paused for approval: after process returns no task
\* of the session is PENDING or RUNNING, every task has run a prefix of its plan (all of
\* it unless it paused or failed), and the executions of an earlier task were made
\* before those of a later one.
C39_ProcessRunsEveryTask ==
    [][\A s \in 1..Len(sessions') :
          (ret'.op = "process" /\ ret'.target = s)
          => LET session == sessions'[s]
                 Task(i) == tasks'[session.agent_tasks[i]]
                 n == Len(session.agent_tasks)
             IN /\ \A i \in 1..n :
                      /\ session.agent_tasks[i] > Len(tasks)
                      /\ Task(i).status \in {SUCCESS, AWAITING_APPROVAL, ERROR}
                      /\ Len(Task(i).workflow_executions) <= Len(Task(i).planned_workflows)
                      /\ \A j \in 1..Len(Task(i).workflow_executions) :
                            /\ Task(i).workflow_executions[j] > Len(executions)
                            /\ executions'[Task(i).workflow_executions[j]].workflow_id
                                  = Task(i).planned_workflows[j]
                      /\ Task(i).status = SUCCESS
                         => Len(Task(i).workflow_executions) = Len(Task(i).planned_workflows)
                /\ \A i, k \in 1..n :
                      i < k => \A ei \in TaskExecutionIds(Task(i)), ek \in TaskExecutionIds(Task(k)) :
                                  ei < ek]_vars

\* process has returned a session whose first task paused and whose second task ran
\* its workflow after that
C39_Witness ==
    \E s \in 1..Len(sessions) :
        /\ ret = Ret("process", s, FALSE, AWAITING_APPROVAL)
        /\ Len(sessions[s].agent_tasks) = 2
        /\ tasks[sessions[s].agent_tasks[1]].status = AWAITING_APPROVAL
        /\ tasks[sessions[s].agent_tasks[2]].status = SUCCESS
        /\ tasks[sessions[s].agent_tasks[2]].workflow_executions # <<>>
        /\ sessions[s].pending_approvals = <<sessions[s].agent_tasks[1]>>

====
